---- MODULE Spec2Model ----
(***************************************************************************)
(* A model of alcazar's Husker query layer: the node classes (NullHusker,  *)
(* TextHusker, ListHusker, JmesPathHusker), the construction function husk *)
(* and the selection/cardinality protocol of SelectorMixin.                *)
(*                                                                         *)
(* Python objects are records of one shape, [cls, str, seq]: the class     *)
(* name, the character data (a string is the sequence of its characters)   *)
(* and the contained objects (the items of a list, the _value of a husker).*)
(* A call ends in an outcome: the returned object or the raised exception. *)
(***************************************************************************)
EXTENDS Integers, Sequences, FiniteSets

VARIABLES
    self,       \* the husker the next operation is invoked on
    call,       \* the last call made on self: [op, args]
    outcome,    \* what that call returned or raised
    evaluated,  \* the argument tuples self.selection was run with, in order
    history     \* the calls completed on an object that has state, oldest first

vars == <<self, call, outcome, evaluated, history>>

----------------------------------------------------------------------------
(* Bounds of the model *)

\* the longest text a document holds
MaxTextLen == 2
\* the most specs passed to one_of / some_of / first_of / any_of
MaxSpecs == 2
\* the number of calls made on a scheduler
MaxCalls == 5

Alphabet == {"a", "b"}

----------------------------------------------------------------------------
(* Python objects and call outcomes *)

Obj(c, s, q) == [cls |-> c, str |-> s, seq |-> q]

None == Obj("NoneType", <<>>, <<>>)
PyStr(s) == Obj("str", s, <<>>)
PyBytes(s) == Obj("bytes", s, <<>>)
PyInt(s) == Obj("int", s, <<>>)
PyList(xs) == Obj("list", <<>>, xs)
PyTuple(xs) == Obj("tuple", <<>>, xs)
PyGenerator(xs) == Obj("generator", <<>>, xs)
\* a dict, and an entry of it: the key and its value
Item(k, v) == Obj("item", k, <<v>>)
PyDict(items) == Obj("dict", <<>>, items)
\* the builtin class bool, used as a callable test
PyBool == Obj("type", <<"b", "o", "o", "l">>, <<>>)

\* the values True and False
PyBoolean(b) == Obj("bool", IF b THEN <<"True">> ELSE <<"False">>, <<>>)

Return(v) == [kind |-> "return", val |-> v, exc |-> ""]
Raise(e) == [kind |-> "raise", val |-> None, exc |-> e]
NoCall == [kind |-> "none", val |-> None, exc |-> ""]

Returned(o) == o.kind = "return"
Raised(o, e) == o.kind = "raise" /\ o.exc = e

HuskerClasses == {"NullHusker", "TextHusker", "ListHusker", "JmesPathHusker",
                  "ElementHusker", "ScalarHusker"}

\* isinstance(x, Husker)
IsHusker(x) == x.cls \in HuskerClasses

\* Husker.__init__: self._value = value
Husker_init(c, v) == Obj(c, <<>>, <<v>>)

\* self._value
value(h) == h.seq[1]

\* NULL_HUSKER = NullHusker()
NULL_HUSKER == Husker_init("NullHusker", None)

\* TextHusker.__init__ (value is never None where the model constructs one)
TextHusker(v) == Husker_init("TextHusker", v)

\* ListHusker.__init__: an iterable without __len__ is copied into a list
ListHusker(v) ==
    Husker_init("ListHusker",
                IF v.cls \in {"generator", "map"} THEN PyList(v.seq) ELSE v)

\* JmesPathHusker(value)
JmesPathHusker(v) == Husker_init("JmesPathHusker", v)

\* husk of husker.py: dispatch on the run-time shape of the value
husk(v) ==
    IF v.cls = "str" THEN Return(TextHusker(v))
    ELSE IF v.cls = "_Element" THEN Return(Husker_init("ElementHusker", v))
    ELSE IF v.cls \in {"tuple", "list", "generator"} THEN Return(ListHusker(v))
    ELSE IF v = None THEN Return(NULL_HUSKER)
    ELSE Raise("ValueError")

\* ScalarHusker(value) of the package revision
ScalarHusker(v) == Husker_init("ScalarHusker", v)

\* husk of the package revision (husker/__init__.py): a node is returned as it is,
\* and an int, float or bool is wrapped into a ScalarHusker
package_husk(v) ==
    IF IsHusker(v) THEN Return(v)
    ELSE IF v.cls = "str" THEN Return(TextHusker(v))
    ELSE IF v.cls \in {"int", "float", "bool"} THEN Return(ScalarHusker(v))
    ELSE IF v.cls = "_Element" THEN Return(Husker_init("ElementHusker", v))
    ELSE IF v.cls \in {"tuple", "list", "generator"} THEN Return(ListHusker(v))
    ELSE IF v = None THEN Return(NULL_HUSKER)
    ELSE Raise("ValueError")

----------------------------------------------------------------------------
(* Truthiness *)

\* Husker.__bool__: self._value is not None
Husker_bool(h) == value(h) # None

\* TextHusker.__bool__: bool(self._value)
TextHusker_bool(h) == Len(value(h).str) > 0

\* ListHusker.__bool__: bool(self._value)
ListHusker_bool(h) == Len(value(h).seq) > 0

\* bool(x): the __bool__ of x's class
bool(x) ==
    CASE x.cls = "TextHusker" -> TextHusker_bool(x)
      [] x.cls = "ListHusker" -> ListHusker_bool(x)
      [] IsHusker(x) /\ x.cls \notin {"TextHusker", "ListHusker"} -> Husker_bool(x)
      [] x.cls = "NoneType" -> FALSE
      [] x.cls = "bool" -> x.str = <<"True">>
      [] x.cls \in {"str", "bytes"} -> Len(x.str) > 0
      [] x.cls \in {"list", "tuple"} -> Len(x.seq) > 0
      [] OTHER -> TRUE

----------------------------------------------------------------------------
(* The re module on the patterns of the model.  A pattern is the string of *)
(* its source: "" | c | (c) | (c)?d | (c)(d), with c and d letters.        *)

Patterns ==
    { <<>>, <<"a">>, <<"b">>, <<"(", "a", ")">>,
      <<"(", "a", ")", "?", "b">>, <<"(", "a", ")", "(", "b", ")">> }

\* regex.groups: the number of capturing groups
re_groups(p) == Cardinality({i \in 1..Len(p) : p[i] = "("})

CharAt(s, i) == IF i \in 1..Len(s) THEN s[i] ELSE ""

NoMatch == [ok |-> FALSE, len |-> 0, groups |-> <<>>]
Match(n, gs) == [ok |-> TRUE, len |-> n, groups |-> gs]

\* the match of pattern p that starts at position i of string s, if any
re_match_at(p, s, i) ==
    CASE Len(p) = 0 -> Match(0, <<>>)
      [] Len(p) = 1 ->
            IF CharAt(s, i) = p[1] THEN Match(1, <<>>) ELSE NoMatch
      [] Len(p) = 3 ->
            IF CharAt(s, i) = p[2] THEN Match(1, <<PyStr(<<p[2]>>)>>) ELSE NoMatch
      [] Len(p) = 5 ->
            IF CharAt(s, i) = p[2] /\ CharAt(s, i + 1) = p[5]
            THEN Match(2, <<PyStr(<<p[2]>>)>>)
            ELSE IF CharAt(s, i) = p[5] THEN Match(1, <<None>>) ELSE NoMatch
      [] Len(p) = 6 ->
            IF CharAt(s, i) = p[2] /\ CharAt(s, i + 1) = p[5]
            THEN Match(2, <<PyStr(<<p[2]>>), PyStr(<<p[5]>>)>>)
            ELSE NoMatch

RECURSIVE re_scan(_, _, _)
re_scan(p, s, i) ==
    IF i > Len(s) + 1 THEN <<>>
    ELSE LET m == re_match_at(p, s, i)
         IN  IF m.ok
             THEN <<[start |-> i, len |-> m.len, groups |-> m.groups]>>
                  \o re_scan(p, s, IF m.len = 0 THEN i + 1 ELSE i + m.len)
             ELSE re_scan(p, s, i + 1)

\* regex.finditer(string): the non-overlapping matches, left to right
re_finditer(p, s) == re_scan(p, s, 1)

\* m.group(n) of a match m in string s
m_group(m, s, n) ==
    IF n = 0 THEN PyStr(SubSeq(s, m.start, m.start + m.len - 1)) ELSE m.groups[n]

----------------------------------------------------------------------------
(* selection: the one primitive every node class implements *)

\* ListHusker.__len__ and ListHusker.__getitem__ (i counts from 0; -1 is the last)
len(h) == Len(value(h).seq)
getitem(h, i) == IF i = -1 THEN value(h).seq[len(h)] ELSE value(h).seq[i + 1]

\* husk(x) where husk cannot fail (x is a str or None)
husked(x) == husk(x).val

\* a compiled pattern, re.compile(source, flags): the source and the flag letters
Pattern(source, flags) == Obj("Pattern", source, <<PyStr(flags)>>)

\* the letters f for which the module re has a flag named f.upper()
FlagLetters == {"a", "i", "l", "m", "s", "t", "u", "x"}

\* TextHusker._compile: a string is compiled under the flags its letters name, a
\* value that is no string is returned as it is when flags == '' (re.compile
\* refuses LOCALE, and ASCII with UNICODE, for a str pattern)
TextHusker_compile(regex, flags) ==
    IF regex.cls = "str"
    THEN IF \E i \in 1..Len(flags.str) : flags.str[i] \notin FlagLetters
         THEN Raise("AttributeError")
         ELSE IF \E i \in 1..Len(flags.str) : flags.str[i] = "l"
         THEN Raise("ValueError")
         ELSE IF \E i, j \in 1..Len(flags.str) : flags.str[i] = "a" /\ flags.str[j] = "u"
         THEN Raise("ValueError")
         ELSE Return(Pattern(regex.str, flags.str))
    ELSE IF flags = PyStr(<<>>) THEN Return(regex)
    ELSE Raise("ValueError")

\* one element for each match, the whole match whatever the groups of the pattern
selected_whole(s, compiled) ==
    IF ~Returned(compiled) THEN compiled
    ELSE IF compiled.val.cls # "Pattern" THEN Raise("AttributeError")
    ELSE Return(ListHusker(PyGenerator(
            [i \in 1..Len(re_finditer(compiled.val.str, s)) |->
                husked(m_group(re_finditer(compiled.val.str, s)[i], s, 0))])))

\* a selection that returns the whole match whatever the groups of the pattern
TextHusker_selection_whole(h, regex, flags) ==
    selected_whole(value(h).str, TextHusker_compile(regex, flags))

\* TextHusker.selection from regex.finditer(self._value) on: one element for each
\* match; the flags of the model (s) change nothing for its patterns, which hold
\* no dot
selected_groups(s, compiled) ==
    IF ~Returned(compiled) THEN compiled
    ELSE IF compiled.val.cls # "Pattern" THEN Raise("AttributeError")
    ELSE LET groups == re_groups(compiled.val.str)
             selected == re_finditer(compiled.val.str, s)
         IN  IF groups < 2
             THEN Return(ListHusker(PyGenerator(
                     [i \in 1..Len(selected) |-> husked(m_group(selected[i], s, groups))])))
             ELSE Return(ListHusker(PyGenerator(
                     [i \in 1..Len(selected) |->
                         ListHusker(PyGenerator(
                             [g \in 1..groups |-> husked(selected[i].groups[g])]))])))

\* TextHusker.selection(regex, flags='')
TextHusker_selection(h, regex, flags) ==
    selected_groups(value(h).str, TextHusker_compile(regex, flags))

\* the items of a list that are not None, in order
RECURSIVE NotNone(_)
NotNone(xs) ==
    IF xs = <<>> THEN <<>>
    ELSE IF Head(xs) = None THEN NotNone(Tail(xs))
    ELSE <<Head(xs)>> \o NotNone(Tail(xs))

\* jmespath.search(path, value) for the paths of the model: a key k, [*] or [0]
jmespath_search(path, v) ==
    IF path = <<"[", "*", "]">>
    THEN IF v.cls = "list"
         THEN PyList(NotNone(v.seq))
         ELSE None
    ELSE IF path = <<"[", "0", "]">>
    THEN IF v.cls = "list" /\ v.seq # <<>> THEN v.seq[1] ELSE None
    ELSE IF v.cls = "dict" /\ \E i \in 1..Len(v.seq) : v.seq[i].str = path
         THEN LET i == CHOOSE j \in 1..Len(v.seq) : v.seq[j].str = path
              IN  v.seq[i].seq[1]
         ELSE None

\* iter(x): the items of a list, the characters of a string, the keys of a dict
iterated(x) ==
    IF x.cls \in {"list", "tuple", "generator"} THEN Return(x.seq)
    ELSE IF x.cls = "str" THEN Return([i \in 1..Len(x.str) |-> PyStr(<<x.str[i]>>)])
    ELSE IF x.cls = "dict" THEN Return([i \in 1..Len(x.seq) |-> PyStr(x.seq[i].str)])
    ELSE Raise("TypeError")

\* JmesPathHusker._child
JmesPathHusker_child(v) ==
    IF v = None THEN NULL_HUSKER
    ELSE IF v.cls = "str" THEN TextHusker(v)
    ELSE JmesPathHusker(v)

\* ListHusker(map(self._child, selected))
children_of(items) ==
    IF ~Returned(items) THEN items
    ELSE Return(ListHusker(PyGenerator(
             [i \in 1..Len(items.val) |-> JmesPathHusker_child(items.val[i])])))

\* JmesPathHusker.selection: selected, after `if '[' not in path: selected = [selected]`
selected_of(path, found) ==
    IF \A i \in 1..Len(path) : path[i] # "[" THEN PyList(<<found>>) ELSE found

\* JmesPathHusker.selection
JmesPathHusker_selection(h, path) ==
    IF path.cls # "str" THEN Raise("TypeError")
    ELSE children_of(iterated(selected_of(path.str, jmespath_search(path.str, value(h)))))

----------------------------------------------------------------------------
(* Element nodes: a node of an HTML tree and its attributes *)

\* an lxml element: its tag, attrib, text, tail and children
Element(tag, attrib, text, tail, children) ==
    Obj("_Element", tag, <<PyDict(attrib), text, tail, PyList(children)>>)

E_attrib(e) == e.seq[1]
E_text(e) == e.seq[2]
E_tail(e) == e.seq[3]
E_children(e) == e.seq[4].seq

\* ElementHusker.__init__
ElementHusker(v, is_full_document) ==
    Obj("ElementHusker", IF is_full_document THEN <<"is_full_document">> ELSE <<>>, <<v>>)

is_full_document(h) == h.str # <<>>

\* the marker of an argument that was not passed
unspecified == Obj("object", <<"_unspecified">>, <<>>)

\* d.get(k, default) on a dict
dict_get(d, k, default) ==
    IF \E i \in 1..Len(d.seq) : d.seq[i].str = k
    THEN d.seq[CHOOSE i \in 1..Len(d.seq) : d.seq[i].str = k].seq[1]
    ELSE default

\* ElementHusker._ensure_decoded: bytes are decoded as us-ascii
ensure_decoded(v) == IF v.cls = "bytes" THEN PyStr(v.str) ELSE v

\* the named character references of the model and the characters they stand for
Entities ==
    { <<<<"&", "a", "m", "p", ";">>, "&">>,
      <<<<"&", "l", "t", ";">>, "<">>,
      <<<<"&", "g", "t", ";">>, ">">> }

StartsWith(s, p) == Len(s) >= Len(p) /\ SubSeq(s, 1, Len(p)) = p

\* unescape_html on a string: every character reference is replaced, left to right
RECURSIVE unescape_chars(_)
unescape_chars(s) ==
    IF s = <<>> THEN <<>>
    ELSE IF \E e \in Entities : StartsWith(s, e[1])
    THEN LET e == CHOOSE x \in Entities : StartsWith(s, x[1])
         IN  <<e[2]>> \o unescape_chars(SubSeq(s, Len(e[1]) + 1, Len(s)))
    ELSE <<Head(s)>> \o unescape_chars(Tail(s))

unescape_html(v) == PyStr(unescape_chars(v.str))

\* the Text node of an attribute value
attrib_text(v) == TextHusker(unescape_html(ensure_decoded(v)))

\* getitem that unescapes nothing
getitem_value_raw(v) ==
    IF v = unspecified THEN Raise("HuskerAttributeNotFound")
    ELSE Return(TextHusker(ensure_decoded(v)))

\* ElementHusker.__getitem__, from value = self._value.attrib.get(item, _unspecified) on
getitem_value(v) ==
    IF v = unspecified THEN Raise("HuskerAttributeNotFound")
    ELSE Return(attrib_text(v))

\* ElementHusker.__getitem__
ElementHusker_getitem(h, item) ==
    getitem_value(dict_get(E_attrib(value(h)), item.str, unspecified))

\* ElementHusker.attrib, from value = self._value.attrib.get(item, _unspecified) on
attrib_value(v, default) ==
    IF v = unspecified THEN Return(default) ELSE Return(attrib_text(v))

\* ElementHusker.attrib(item, default=NULL_HUSKER)
ElementHusker_attrib(h, item, default) ==
    attrib_value(dict_get(E_attrib(value(h)), item.str, unspecified), default)

----------------------------------------------------------------------------
(* Element nodes: text extraction *)

BR == <<"b", "r">>
DIV == <<"d", "i", "v">>
PRE == <<"p", "r", "e">>
SPAN == <<"s", "p", "a", "n">>
SCRIPT == <<"s", "c", "r", "i", "p", "t">>

\* ElementHusker._PARAGRAPH_BREAKING_TAGS, the tags of the model among them
PARAGRAPH_BREAKING_TAGS == { DIV, <<"p">>, <<"l", "i">>, <<"t", "d">> }

\* ElementHusker._NON_TEXT_TAGS
NON_TEXT_TAGS == { SCRIPT, <<"s", "t", "y", "l", "e">> }

\* a comment node: an ET._Comment, whose tag is not a string
Comment(text, tail) == Obj("_Comment", <<>>, <<PyDict(<<>>), text, tail, PyList(<<>>)>>)

\* the characters \s matches
Whitespace == { " ", "\n", "\t" }

\* the length of the run of whitespace that starts at position i of s
RECURSIVE run_length(_, _)
run_length(s, i) ==
    IF i > Len(s) \/ s[i] \notin Whitespace THEN 0 ELSE 1 + run_length(s, i + 1)

\* s.strip()
RECURSIVE lstrip(_)
lstrip(s) == IF s # <<>> /\ Head(s) \in Whitespace THEN lstrip(Tail(s)) ELSE s

RECURSIVE rstrip(_)
rstrip(s) ==
    IF s # <<>> /\ s[Len(s)] \in Whitespace THEN rstrip(SubSeq(s, 1, Len(s) - 1)) ELSE s

strip(s) == rstrip(lstrip(s))

\* re.sub(r'\s+', ' ', s)
RECURSIVE spaces_collapsed(_)
spaces_collapsed(s) ==
    IF s = <<>> THEN <<>>
    ELSE IF Head(s) \in Whitespace
    THEN <<" ">> \o spaces_collapsed(SubSeq(s, run_length(s, 1) + 1, Len(s)))
    ELSE <<Head(s)>> \o spaces_collapsed(Tail(s))

\* normalize_spaces: runs of whitespace become one space, the edges are trimmed
normalize_spaces(s) == strip(spaces_collapsed(s))

\* "\n\n" in run
has_blank_line(run) == \E i \in 1..(Len(run) - 1) : run[i] = "\n" /\ run[i + 1] = "\n"

\* a replacement that keeps a run with a newline as it is
run_replacement_uncapped(run) ==
    IF \E i \in 1..Len(run) : run[i] = "\n" THEN run ELSE <<" ">>

\* the replacement of a run of whitespace in _multiline_text:
\* "\n\n" if "\n\n" in m.group() else "\n" if "\n" in m.group() else " "
run_replacement(run) ==
    IF has_blank_line(run) THEN <<"\n", "\n">>
    ELSE IF \E i \in 1..Len(run) : run[i] = "\n" THEN <<"\n">>
    ELSE <<" ">>

\* re.sub(r'\s+', <the replacement above>, s)
RECURSIVE runs_replaced(_)
runs_replaced(s) ==
    IF s = <<>> THEN <<>>
    ELSE IF Head(s) \in Whitespace
    THEN run_replacement(SubSeq(s, 1, run_length(s, 1)))
             \o runs_replaced(SubSeq(s, run_length(s, 1) + 1, Len(s)))
    ELSE <<Head(s)>> \o runs_replaced(Tail(s))

\* node.text or node.tail as visit yields it: nothing when it is None or empty
yielded_text(v, inside_pre) ==
    IF v = None \/ v.str = <<>> THEN <<>>
    ELSE IF inside_pre THEN v.str
    ELSE normalize_spaces(v.str)

\* what visit yields on entering a node
yielded_break(tag) ==
    IF tag = BR THEN <<"\n">>
    ELSE IF tag \in PARAGRAPH_BREAKING_TAGS THEN <<"\n", "\n">>
    ELSE <<>>

\* what visit yields on leaving a node, before its tail
yielded_close(tag) == IF tag \in PARAGRAPH_BREAKING_TAGS THEN <<"\n", "\n">> ELSE <<>>

has_text(node) == node.str \notin NON_TEXT_TAGS /\ node.cls # "_Comment"

\* ''.join(visit(node, inside_pre)) of _multiline_text
RECURSIVE visit(_, _)
RECURSIVE visit_children(_, _)
visit(node, inside_pre) ==
    yielded_break(node.str)
        \o (IF has_text(node)
            THEN yielded_text(E_text(node), inside_pre \/ node.str = PRE)
                     \o visit_children(E_children(node), inside_pre \/ node.str = PRE)
            ELSE <<>>)
        \o yielded_close(node.str)
        \o yielded_text(E_tail(node), inside_pre \/ node.str = PRE)

visit_children(children, inside_pre) ==
    IF children = <<>> THEN <<>>
    ELSE visit(Head(children), inside_pre) \o visit_children(Tail(children), inside_pre)

\* ElementHusker._multiline_text
multiline_text(h) == strip(runs_replaced(visit(value(h), FALSE)))

\* ElementHusker.multiline
ElementHusker_multiline(h) == Return(TextHusker(PyStr(multiline_text(h))))

----------------------------------------------------------------------------
(* Element nodes: path search *)

\* the characters \w matches, among those of the model
WordChars ==
    { "a", "b", "c", "d", "e", "f", "g", "h", "i", "j", "k", "l", "m", "n", "o", "p",
      "q", "r", "s", "t", "u", "v", "w", "x", "y", "z", "_" }

IsWord(s) == s # <<>> /\ \A i \in 1..Len(s) : s[i] \in WordChars

\* re.search(r'(?:^\.(?=/)|/|@|^\w+$)', path): the path is an XPath rather than CSS
is_xpath(path) ==
    \/ StartsWith(path, <<".", "/">>)
    \/ \E i \in 1..Len(path) : path[i] \in {"/", "@"}
    \/ IsWord(path)

\* the groups of the match of r'^(\.?)(/{,2})' and what follows the match
leading_dot(path) == IF StartsWith(path, <<".">>) THEN <<".">> ELSE <<>>

leading_slashes(s) ==
    IF StartsWith(s, <<"/", "/">>) THEN <<"/", "/">>
    ELSE IF StartsWith(s, <<"/">>) THEN <<"/">>
    ELSE <<>>

after(s, prefix) == SubSeq(s, Len(prefix) + 1, Len(s))

\* a replacement that keeps the path's own dot, whatever the node
xpath_prefix_unforced(full, group1, group2) ==
    group1 \o (IF group2 # <<>> THEN group2 ELSE <<"/", "/">>)

\* a replacement that always searches all descendants
xpath_prefix_widened(full, group1, group2) ==
    (IF full THEN group1 ELSE <<".">>) \o <<"/", "/">>

\* the replacement of the match: '%s%s' % (m.group(1) if self.is_full_document
\* else '.', m.group(2) or '//')
xpath_prefix(full, group1, group2) ==
    (IF full THEN group1 ELSE <<".">>) \o (IF group2 # <<>> THEN group2 ELSE <<"/", "/">>)

\* re.sub(r'^(\.?)(/{,2})', ..., path)
xpath_sub(full, path) ==
    xpath_prefix(full, leading_dot(path), leading_slashes(after(path, leading_dot(path))))
        \o after(after(path, leading_dot(path)),
                 leading_slashes(after(path, leading_dot(path))))

\* ElementHusker._compile_xpath; a CSS path needs lxml.cssselect, outside the model
compile_xpath(h, path) ==
    IF is_xpath(path) THEN Return(PyStr(xpath_sub(is_full_document(h), path)))
    ELSE Raise("NotImplementedError")

\* the descendants of a node, in document order
RECURSIVE descendants(_)
RECURSIVE descendants_of_all(_)
descendants(node) == descendants_of_all(E_children(node))

descendants_of_all(children) ==
    IF children = <<>> THEN <<>>
    ELSE <<Head(children)>> \o descendants(Head(children))
             \o descendants_of_all(Tail(children))

\* the nodes of a sequence that are elements with the given tag
RECURSIVE named(_, _)
named(nodes, name) ==
    IF nodes = <<>> THEN <<>>
    ELSE IF Head(nodes).cls = "_Element" /\ Head(nodes).str = name
    THEN <<Head(nodes)>> \o named(Tail(nodes), name)
    ELSE named(Tail(nodes), name)

\* the nodes a step of an XPath ranges over, from the context node, which is the
\* root of its document when the path is absolute: /x is the root, //x the root
\* and its descendants, ./x the children, .//x the descendants
xpath_axis(dot, slashes, node) ==
    IF slashes = <<"/", "/">>
    THEN (IF dot = <<>> THEN <<node>> ELSE <<>>) \o descendants(node)
    ELSE IF dot = <<>> THEN <<node>> ELSE E_children(node)

\* ET.XPath(xpath)(node) for an xpath that is ".", "/" or "//", and a tag name
xpath_eval(xpath, node) ==
    named(xpath_axis(leading_dot(xpath),
                     leading_slashes(after(xpath, leading_dot(xpath))), node),
          after(after(xpath, leading_dot(xpath)),
                leading_slashes(after(xpath, leading_dot(xpath)))))

\* ListHusker(husk(self._ensure_decoded(v)) for v in selected)
selected_huskers(selected) ==
    Return(ListHusker(PyGenerator(
        [i \in 1..Len(selected) |-> husked(ensure_decoded(selected[i]))])))

\* ElementHusker.selection, from xpath = self._compile_xpath(path) on
selection_by_xpath(h, xpath) ==
    IF ~Returned(xpath) THEN xpath
    ELSE selected_huskers(xpath_eval(xpath.val.str, value(h)))

\* ElementHusker.selection
ElementHusker_selection(h, path) ==
    IF path.cls # "str" THEN Raise("TypeError")
    ELSE selection_by_xpath(h, compile_xpath(h, path.str))

----------------------------------------------------------------------------
(* selection on a Sequence node, and the dispatch on the class of self *)

RECURSIVE selection(_, _)

\* bool(child.selection(spec)), or the exception selection raised
truthy(sel) == IF Returned(sel) THEN Return(bool(sel.val)) ELSE sel

\* a test every child passes
child_passes_always(child, test) == Return(TRUE)

\* test is None or test(child): a non-callable test is a spec for child.selection
child_passes(child, test) ==
    IF test = None THEN Return(TRUE)
    ELSE IF test = PyBool THEN Return(bool(child))
    ELSE truthy(selection(child, <<test>>))

\* one turn of the generator of ListHusker.selection
filter_step(child, passed, rest) ==
    IF ~Returned(passed) THEN passed
    ELSE IF ~Returned(rest) THEN rest
    ELSE IF passed.val THEN Return(PyGenerator(<<child>> \o rest.val.seq))
    ELSE rest

\* the children that pass the test, in order
RECURSIVE ListHusker_filter(_, _)
ListHusker_filter(children, test) ==
    IF children = <<>> THEN Return(PyGenerator(<<>>))
    ELSE filter_step(Head(children), child_passes(Head(children), test),
                     ListHusker_filter(Tail(children), test))

\* ListHusker(generator)
ListHusker_of(kept) == IF Returned(kept) THEN Return(ListHusker(kept.val)) ELSE kept

\* ListHusker.selection
ListHusker_selection(h, test) == ListHusker_of(ListHusker_filter(value(h).seq, test))

\* NullHusker.selection = _returns_null
NullHusker_selection(h) == Return(NULL_HUSKER)

\* self.selection(*spec): the method of self's class, called with the arguments spec
selection(h, spec) ==
    CASE h.cls = "NullHusker" -> NullHusker_selection(h)
      [] h.cls = "TextHusker" ->
            IF Len(spec) = 1 THEN TextHusker_selection(h, spec[1], PyStr(<<>>))
            ELSE IF Len(spec) = 2 THEN TextHusker_selection(h, spec[1], spec[2])
            ELSE Raise("TypeError")
      [] h.cls = "JmesPathHusker" ->
            IF Len(spec) = 1 THEN JmesPathHusker_selection(h, spec[1]) ELSE Raise("TypeError")
      [] h.cls = "ListHusker" ->
            IF Len(spec) = 0 THEN ListHusker_selection(h, None)
            ELSE IF Len(spec) = 1 THEN ListHusker_selection(h, spec[1])
            ELSE Raise("TypeError")
      [] h.cls = "ElementHusker" ->
            IF Len(spec) = 1 THEN ElementHusker_selection(h, spec[1]) ELSE Raise("TypeError")
      [] OTHER -> Raise("AttributeError")

----------------------------------------------------------------------------
(* What an error message is made of: repr_spec and repr_value *)

\* the name of a node class, as characters
ClassName(cls) ==
    CASE cls = "TextHusker" -> <<"T", "e", "x", "t", "H", "u", "s", "k", "e", "r">>
      [] cls = "ListHusker" -> <<"L", "i", "s", "t", "H", "u", "s", "k", "e", "r">>
      [] cls = "NullHusker" -> <<"N", "u", "l", "l", "H", "u", "s", "k", "e", "r">>
      [] cls = "JmesPathHusker" ->
            <<"J", "m", "e", "s", "P", "a", "t", "h", "H", "u", "s", "k", "e", "r">>

\* the characters of s with the quote q, the backslash, the newline and the tab
\* written as escapes
RECURSIVE escaped(_, _)
escaped(s, q) ==
    IF s = <<>> THEN <<>>
    ELSE (IF Head(s) \in {q, "\\"} THEN <<"\\", Head(s)>>
          ELSE IF Head(s) = "\n" THEN <<"\\", "n">>
          ELSE IF Head(s) = "\t" THEN <<"\\", "t">>
          ELSE <<Head(s)>>) \o escaped(Tail(s), q)

\* repr of a str: in double quotes when it holds ' and no ", else in single quotes
str_repr(s) ==
    IF (\E i \in 1..Len(s) : s[i] = "'") /\ ~(\E i \in 1..Len(s) : s[i] = "\"")
    THEN <<"\"">> \o escaped(s, "\"") \o <<"\"">>
    ELSE <<"'">> \o escaped(s, "'") \o <<"'">>

\* sep.join(parts)
RECURSIVE joined(_, _)
joined(parts, sep) ==
    IF parts = <<>> THEN <<>>
    ELSE IF Len(parts) = 1 THEN parts[1]
    ELSE parts[1] \o sep \o joined(Tail(parts), sep)

\* repr(x): of a str, None, a list, a tuple, the class bool, a pattern compiled
\* without flags, and of a node (Husker.__repr__: '%s(%r)' of class name and value)
RECURSIVE repr(_)
repr(x) ==
    CASE x.cls = "str" -> str_repr(x.str)
      [] x.cls = "NoneType" -> <<"N", "o", "n", "e">>
      [] x.cls = "list" ->
            <<"[">> \o joined([i \in 1..Len(x.seq) |-> repr(x.seq[i])], <<",", " ">>) \o <<"]">>
      [] x.cls = "tuple" ->
            <<"(">> \o joined([i \in 1..Len(x.seq) |-> repr(x.seq[i])], <<",", " ">>)
                \o (IF Len(x.seq) = 1 THEN <<",">> ELSE <<>>) \o <<")">>
      [] x = PyBool ->
            <<"<", "c", "l", "a", "s", "s", " ", "'", "b", "o", "o", "l", "'", ">">>
      [] x.cls = "Pattern" /\ x.seq = <<PyStr(<<>>)>> ->
            <<"r", "e", ".", "c", "o", "m", "p", "i", "l", "e", "(">> \o str_repr(x.str) \o <<")">>
      [] IsHusker(x) -> ClassName(x.cls) \o <<"(">> \o repr(value(x)) \o <<")">>

\* the characters of the model in the order of their code points
CharOrder ==
    <<"\t", "\n", " ", "\"", "'", "(", ")", "*", ",", "0", "1", "2", ":", "?", "[", "\\",
      "]", "a", "b", "l", "n", "u", "{", "}">>

\* the place of a character in that order
rank(c) == CHOOSE i \in 1..Len(CharOrder) : CharOrder[i] = c

\* s < t for two strings
RECURSIVE str_lt(_, _)
str_lt(s, t) ==
    IF t = <<>> THEN FALSE
    ELSE IF s = <<>> THEN TRUE
    ELSE IF Head(s) = Head(t) THEN str_lt(Tail(s), Tail(t))
    ELSE rank(Head(s)) < rank(Head(t))

\* the entries of a dict in the order of their keys
RECURSIVE sorted_items(_)
sorted_items(items) ==
    IF items = <<>> THEN <<>>
    ELSE LET least == CHOOSE i \in 1..Len(items) :
                        \A j \in 1..Len(items) : ~str_lt(items[j].str, items[i].str)
         IN  <<items[least]>>
                 \o sorted_items(SubSeq(items, 1, least - 1) \o SubSeq(items, least + 1, Len(items)))

\* json.dumps(v, sort_keys=True) of None, a str, a list and a dict
RECURSIVE json_dumps(_)
json_dumps(v) ==
    CASE v.cls = "NoneType" -> <<"n", "u", "l", "l">>
      [] v.cls = "str" -> <<"\"">> \o escaped(v.str, "\"") \o <<"\"">>
      [] v.cls \in {"list", "tuple"} ->
            <<"[">> \o joined([i \in 1..Len(v.seq) |-> json_dumps(v.seq[i])], <<",", " ">>)
                \o <<"]">>
      [] v.cls = "dict" ->
            <<"{">> \o joined([i \in 1..Len(v.seq) |->
                                <<"\"">> \o escaped(sorted_items(v.seq)[i].str, "\"")
                                    \o <<"\"", ":", " ">>
                                    \o json_dumps(sorted_items(v.seq)[i].seq[1])],
                              <<",", " ">>)
                \o <<"}">>

\* JmesPathHusker.text
JmesPathHusker_text(h) ==
    IF value(h).cls = "str" THEN TextHusker(value(h))
    ELSE TextHusker(PyStr(json_dumps(value(h))))

\* one turn of the generator of ListHusker.text
text_step(text, rest) ==
    IF ~Returned(text) THEN text
    ELSE IF ~Returned(rest) THEN rest
    ELSE Return(PyGenerator(<<text.val>> \o rest.val.seq))

RECURSIVE Husker_text(_)

\* getattr(child, 'text') for child in self._value
RECURSIVE texts_of(_)
texts_of(children) ==
    IF children = <<>> THEN Return(PyGenerator(<<>>))
    ELSE text_step(Husker_text(Head(children)), texts_of(Tail(children)))

\* x.text: TextHusker.text is the node, NullHusker.text the Null node,
\* ListHusker.text the texts of the children; a value that is no node has none
Husker_text(x) ==
    CASE x.cls = "TextHusker" -> Return(x)
      [] x.cls = "NullHusker" -> Return(NULL_HUSKER)
      [] x.cls = "JmesPathHusker" -> Return(JmesPathHusker_text(x))
      [] x.cls = "ListHusker" -> ListHusker_of(texts_of(value(x).seq))
      [] OTHER -> Raise("AttributeError")

\* repr(text._value)
value_repr(text) == IF ~Returned(text) THEN text ELSE Return(PyStr(repr(value(text.val))))

\* Husker.repr_value
Husker_repr_value(h) == value_repr(Husker_text(h))

\* Husker.repr_spec(*spec)
Husker_repr_spec(h, spec) ==
    IF Len(spec) = 1 THEN Return(PyStr(repr(spec[1])))
    ELSE Return(PyStr(repr(PyTuple(spec))))

\* re.sub(r'^u?[\'\"](.*)[\'\"]$', r'/\1/', s) for s without a newline: a string
\* in quotes, after a u or not, is put between slashes
unquoted_line(s) ==
    LET open == IF Len(s) >= 1 /\ s[1] \in {"'", "\""} THEN 1
                ELSE IF Len(s) >= 2 /\ s[1] = "u" /\ s[2] \in {"'", "\""} THEN 2
                ELSE 0
    IN  IF open > 0 /\ Len(s) > open /\ s[Len(s)] \in {"'", "\""}
        THEN <<"/">> \o SubSeq(s, open + 1, Len(s) - 1) \o <<"/">>
        ELSE s

\* the same for any s: . takes no newline, and $ also matches before a last newline
unquoted(s) ==
    IF \A i \in 1..Len(s) : s[i] # "\n" THEN unquoted_line(s)
    ELSE IF s[Len(s)] = "\n" /\ \A i \in 1..(Len(s) - 1) : s[i] # "\n"
    THEN IF unquoted_line(SubSeq(s, 1, Len(s) - 1)) = SubSeq(s, 1, Len(s) - 1) THEN s
         ELSE unquoted_line(SubSeq(s, 1, Len(s) - 1)) \o <<"\n">>
    ELSE s

\* str(x) of a str
flags_str(flags) == IF flags.cls = "str" THEN flags.str ELSE repr(flags)

\* TextHusker.repr_spec(regex, flags=''): re.sub takes a string only
TextHusker_repr_spec(h, spec) ==
    IF Len(spec) \notin {1, 2} THEN Raise("TypeError")
    ELSE IF spec[1].cls # "str" THEN Raise("TypeError")
    ELSE Return(PyStr(unquoted(spec[1].str)
                        \o (IF Len(spec) = 2 THEN flags_str(spec[2]) ELSE <<>>)))

\* self.repr_spec(*spec)
repr_spec(h, spec) ==
    IF h.cls = "TextHusker" THEN TextHusker_repr_spec(h, spec) ELSE Husker_repr_spec(h, spec)

\* self.repr_value()
repr_value(h) == Husker_repr_value(h)

\* raise exc(message % (self.id, first, second)): the two texts are rendered, in
\* this order, before the exception exists
message_raised(first, second, exc) ==
    IF ~Returned(first) THEN first
    ELSE IF ~Returned(second) THEN second
    ELSE Raise(exc)

\* raise HuskerMismatch('%s found no matches for %s in %s' % (self.id,
\* self.repr_spec(*spec), self.repr_value()))
HuskerMismatch(h, spec) == message_raised(repr_spec(h, spec), repr_value(h), "HuskerMismatch")

\* raise HuskerNotUnique('%s expected 1 match for %s, found %d' % (self.id,
\* self.repr_spec(*spec), len(selected)))
\* (the number is rendered by %d, which cannot fail)
HuskerNotUnique(h, spec) == message_raised(repr_spec(h, spec), Return(None), "HuskerNotUnique")

\* raise HuskerMultipleSpecMatch('%s: both %s and %s matched' % (self.id,
\* self.repr_spec(*matching_spec), self.repr_spec(*spec)))
HuskerMultipleSpecMatch(h, matching_spec, spec) ==
    message_raised(repr_spec(h, matching_spec), repr_spec(h, spec), "HuskerMultipleSpecMatch")

----------------------------------------------------------------------------
(* SelectorMixin: the cardinality operators, derived from selection *)

\* SelectorMixin.one, from selected = self.selection(*spec) on
one_selected(h, spec, selected) ==
    IF ~Returned(selected) THEN selected
    ELSE IF len(selected.val) = 0 THEN HuskerMismatch(h, spec)
    ELSE IF len(selected.val) > 1 THEN HuskerNotUnique(h, spec)
    ELSE Return(getitem(selected.val, 0))

one(h, spec) == one_selected(h, spec, selection(h, spec))

\* SelectorMixin.some
some_selected(h, spec, selected) ==
    IF ~Returned(selected) THEN selected
    ELSE IF len(selected.val) = 0 THEN Return(NULL_HUSKER)
    ELSE IF len(selected.val) > 1 THEN HuskerNotUnique(h, spec)
    ELSE Return(getitem(selected.val, 0))

some(h, spec) == some_selected(h, spec, selection(h, spec))

\* SelectorMixin.first
first_selected(h, spec, selected) ==
    IF ~Returned(selected) THEN selected
    ELSE IF len(selected.val) = 0 THEN HuskerMismatch(h, spec)
    ELSE Return(getitem(selected.val, 0))

first(h, spec) == first_selected(h, spec, selection(h, spec))

\* SelectorMixin.last
last_selected(h, spec, selected) ==
    IF ~Returned(selected) THEN selected
    ELSE IF len(selected.val) = 0 THEN HuskerMismatch(h, spec)
    ELSE Return(getitem(selected.val, -1))

last(h, spec) == last_selected(h, spec, selection(h, spec))

\* any that returns selected[-1]
any_selected_last(selected) ==
    IF ~Returned(selected) THEN selected
    ELSE IF len(selected.val) = 0 THEN Return(NULL_HUSKER)
    ELSE Return(getitem(selected.val, -1))

\* SelectorMixin.any
any_selected(selected) ==
    IF ~Returned(selected) THEN selected
    ELSE IF len(selected.val) = 0 THEN Return(NULL_HUSKER)
    ELSE Return(getitem(selected.val, 0))

any(h, spec) == any_selected(selection(h, spec))

\* SelectorMixin.all
all_selected(h, spec, selected) ==
    IF ~Returned(selected) THEN selected
    ELSE IF ~bool(selected.val) THEN HuskerMismatch(h, spec)
    ELSE selected

all(h, spec) == all_selected(h, spec, selection(h, spec))

\* the arguments a spec of an _of operator is called with:
\* if not isinstance(spec, (list, tuple)): spec = [spec]
spec_args(spec) == IF spec.cls \in {"list", "tuple"} THEN spec.seq ELSE <<spec>>

\* A run of an _of operator: loop position i, the locals match and matching_spec,
\* the argument tuples selection was run with so far, and the outcome once it ended
Run(i, match, matching_spec, log, out) ==
    [i |-> i, match |-> match, matching_spec |-> matching_spec, log |-> log, out |-> out]

\* the body of the loop of SelectorMixin.some_of for one spec, selected = self.some(*spec)
some_of_body(h, r, spec, selected) ==
    IF ~Returned(selected)
    THEN Run(r.i, r.match, r.matching_spec, Append(r.log, spec), selected)
    ELSE IF bool(selected.val)
    THEN IF r.matching_spec = None
         THEN Run(r.i + 1, selected.val, PyList(spec), Append(r.log, spec), NoCall)
         ELSE Run(r.i, r.match, r.matching_spec, Append(r.log, spec),
                  HuskerMultipleSpecMatch(h, r.matching_spec.seq, spec))
    ELSE Run(r.i + 1, r.match, r.matching_spec, Append(r.log, spec), NoCall)

\* SelectorMixin.some_of: for spec in all_specs ...; return match
RECURSIVE some_of_loop(_, _, _)
some_of_loop(h, all_specs, r) ==
    IF r.out # NoCall THEN r
    ELSE IF r.i > Len(all_specs) THEN Run(r.i, r.match, r.matching_spec, r.log, Return(r.match))
    ELSE some_of_loop(h, all_specs,
                      some_of_body(h, r, spec_args(all_specs[r.i]),
                                   some(h, spec_args(all_specs[r.i]))))

some_of_run(h, all_specs) == some_of_loop(h, all_specs, Run(1, None, None, <<>>, NoCall))

\* SelectorMixin.some_of
some_of(h, all_specs) == some_of_run(h, all_specs).out

\* raise HuskerMismatch(... ', '.join('"%s"' % spec for spec in all_specs)): a spec
\* that is a tuple is the tuple of the arguments of %, which takes exactly one
none_matched(all_specs) ==
    IF \E i \in 1..Len(all_specs) :
          all_specs[i].cls = "tuple" /\ Len(all_specs[i].seq) # 1
    THEN Raise("TypeError")
    ELSE Raise("HuskerMismatch")

\* SelectorMixin.one_of, from match = self.some_of(*all_specs) on
one_of_match(r, mismatch) ==
    IF ~Returned(r.out) THEN r
    ELSE IF ~bool(r.out.val) THEN Run(r.i, r.match, r.matching_spec, r.log, mismatch)
    ELSE r

one_of_run(h, all_specs) == one_of_match(some_of_run(h, all_specs), none_matched(all_specs))

\* SelectorMixin.one_of
one_of(h, all_specs) == one_of_run(h, all_specs).out

\* the body of the loop of first_of and any_of for one spec, selected = self.any(*spec)
any_of_body(r, spec, selected) ==
    IF ~Returned(selected) THEN Run(r.i, None, None, Append(r.log, spec), selected)
    ELSE IF bool(selected.val) THEN Run(r.i, None, None, Append(r.log, spec), selected)
    ELSE Run(r.i + 1, None, None, Append(r.log, spec), NoCall)

\* the loop of SelectorMixin.first_of and SelectorMixin.any_of; exhausted is what
\* follows the loop when no spec matched
RECURSIVE any_of_loop(_, _, _, _)
any_of_loop(h, all_specs, r, exhausted) ==
    IF r.out # NoCall THEN r
    ELSE IF r.i > Len(all_specs) THEN Run(r.i, None, None, r.log, exhausted)
    ELSE any_of_loop(h, all_specs,
                     any_of_body(r, spec_args(all_specs[r.i]),
                                 any(h, spec_args(all_specs[r.i]))),
                     exhausted)

first_of_run(h, all_specs) ==
    any_of_loop(h, all_specs, Run(1, None, None, <<>>, NoCall), none_matched(all_specs))

any_of_run(h, all_specs) ==
    any_of_loop(h, all_specs, Run(1, None, None, <<>>, NoCall), Return(NULL_HUSKER))

\* SelectorMixin.first_of
first_of(h, all_specs) == first_of_run(h, all_specs).out

\* SelectorMixin.any_of
any_of(h, all_specs) == any_of_run(h, all_specs).out

----------------------------------------------------------------------------
(* NullHusker: the attributes the class overrides, and those it inherits *)

NullHusker_returns_null ==
    { "selection", "one", "some", "first", "last", "any", "all", "one_of", "some_of",
      "first_of", "any_of", "all_of", "selection_of", "text", "multiline", "join",
      "list", "sub", "lower", "upper", "__getitem__", "attrib", "json", "map", "filter" }

NullHusker_returns_none ==
    { "str", "int", "float", "date", "datetime", "map_raw", "lookup" }

\* Decimal(x): a str over the alphabet of the model holds no digit
Decimal(x) == IF x.cls = "str" THEN Raise("InvalidOperation") ELSE Raise("TypeError")

\* self.str: NullHusker.str is property(_returns_none); Husker.str is
\* self.text._value, and the text of a TextHusker is the TextHusker itself
attr_str(h) ==
    CASE h.cls = "NullHusker" -> Return(None)
      [] h.cls = "TextHusker" -> Return(value(h))

\* Husker.decimal: Decimal(self.str)
Husker_decimal(h) ==
    LET s == attr_str(h) IN IF ~Returned(s) THEN s ELSE Decimal(s.val)

\* Husker.raw
Husker_raw(h) == Return(value(h))

\* getattr(NULL_HUSKER, op), called where op is a method
NullHusker_attr(h, op) ==
    IF op \in NullHusker_returns_null THEN Return(NULL_HUSKER)
    ELSE IF op \in NullHusker_returns_none THEN Return(None)
    ELSE IF op = "decimal" THEN Husker_decimal(h)
    ELSE IF op = "raw" THEN Husker_raw(h)
    ELSE Raise("AttributeError")

\* the operations of the capability set Husker shares with NullHusker
NullOps ==
    { "text", "multiline", "attrib", "__getitem__", "sub", "json", "map", "filter",
      "lookup", "str", "int", "float", "decimal", "date", "datetime" }

----------------------------------------------------------------------------
(* The lenient JSON parser, on texts without white space, comments or        *)
(* escapes: null, strings in double or single quotes, arrays, and objects    *)
(* whose keys are strings or bare words; a comma may precede a closing       *)
(* bracket or brace.                                                         *)

\* a value parsed, and the position after it
Parsed(v, i) == [ok |-> TRUE, val |-> v, at |-> i]
Unparsed == [ok |-> FALSE, val |-> None, at |-> 0]

\* s[i] where there is one
char_at(s, i) == IF i \in 1..Len(s) THEN s[i] ELSE ""

QuoteChars == {"\"", "'"}
KeyChars == {"a", "b", "n", "u", "l"}

\* the string literal opening at i: a single-quoted one is normalised to the
\* same string
json_string(s, i) ==
    IF \E j \in (i + 1)..Len(s) : s[j] = s[i]
    THEN LET j == CHOOSE k \in (i + 1)..Len(s) :
                    s[k] = s[i] /\ \A n \in (i + 1)..(k - 1) : s[n] # s[i]
         IN  IF \A n \in (i + 1)..(j - 1) : s[n] \notin QuoteChars
             THEN Parsed(PyStr(SubSeq(s, i + 1, j - 1)), j + 1)
             ELSE Unparsed
    ELSE Unparsed

\* the bare key from i up to the colon: it is put in quotes
json_bare_key(s, i) ==
    IF \E j \in (i + 1)..Len(s) : s[j] = ":" /\ \A n \in i..(j - 1) : s[n] \in KeyChars
    THEN LET j == CHOOSE k \in (i + 1)..Len(s) :
                    s[k] = ":" /\ \A n \in i..(k - 1) : s[n] \in KeyChars
         IN  Parsed(PyStr(SubSeq(s, i, j - 1)), j)
    ELSE Unparsed

\* an object key at i
json_key(s, i) ==
    IF char_at(s, i) \in QuoteChars THEN json_string(s, i) ELSE json_bare_key(s, i)

RECURSIVE json_value(_, _)
RECURSIVE json_items(_, _, _)
RECURSIVE json_members(_, _, _)

\* after an array item: a comma and more items, or the closing bracket,
\* before which a trailing comma is dropped
json_after_item(s, acc, item) ==
    IF ~item.ok THEN Unparsed
    ELSE IF char_at(s, item.at) = "]"
    THEN Parsed(PyList(Append(acc, item.val)), item.at + 1)
    ELSE IF char_at(s, item.at) = "," /\ char_at(s, item.at + 1) = "]"
    THEN Parsed(PyList(Append(acc, item.val)), item.at + 2)
    ELSE IF char_at(s, item.at) = ","
    THEN json_items(s, item.at + 1, Append(acc, item.val))
    ELSE Unparsed

\* the items of an array from position i on
json_items(s, i, acc) == json_after_item(s, acc, json_value(s, i))

\* after the value of a member: a comma and more members, or the closing
\* brace, before which a trailing comma is dropped
json_after_member(s, acc, key, member) ==
    IF ~member.ok THEN Unparsed
    ELSE IF char_at(s, member.at) = "}"
    THEN Parsed(PyDict(Append(acc, Item(key.str, member.val))), member.at + 1)
    ELSE IF char_at(s, member.at) = "," /\ char_at(s, member.at + 1) = "}"
    THEN Parsed(PyDict(Append(acc, Item(key.str, member.val))), member.at + 2)
    ELSE IF char_at(s, member.at) = ","
    THEN json_members(s, member.at + 1, Append(acc, Item(key.str, member.val)))
    ELSE Unparsed

\* after the key of a member: the colon and the value
json_after_key(s, acc, key) ==
    IF ~key.ok \/ char_at(s, key.at) # ":" THEN Unparsed
    ELSE json_after_member(s, acc, key.val, json_value(s, key.at + 1))

\* the members of an object from position i on
json_members(s, i, acc) == json_after_key(s, acc, json_key(s, i))

\* the value at position i
json_value(s, i) ==
    IF i + 3 <= Len(s) /\ SubSeq(s, i, i + 3) = <<"n", "u", "l", "l">>
    THEN Parsed(None, i + 4)
    ELSE IF char_at(s, i) \in QuoteChars THEN json_string(s, i)
    ELSE IF char_at(s, i) = "[" /\ char_at(s, i + 1) = "]" THEN Parsed(PyList(<<>>), i + 2)
    ELSE IF char_at(s, i) = "[" THEN json_items(s, i + 1, <<>>)
    ELSE IF char_at(s, i) = "{" /\ char_at(s, i + 1) = "}" THEN Parsed(PyDict(<<>>), i + 2)
    ELSE IF char_at(s, i) = "{" THEN json_members(s, i + 1, <<>>)
    ELSE Unparsed

\* the whole text has to be one value
json_document(s, parsed) ==
    IF parsed.ok /\ parsed.at = Len(s) + 1 THEN Return(parsed.val)
    ELSE Raise("JSONDecodeError")

\* lenient_json_loads(text)
lenient_json_loads(text) == json_document(text.str, json_value(text.str, 1))

\* JmesPathHusker(...) of what lenient_json_loads gave
json_wrapped(loaded) ==
    IF Returned(loaded) THEN Return(JmesPathHusker(loaded.val)) ELSE loaded

\* Husker.json, on a Text node: JmesPathHusker(lenient_json_loads(self.str))
Husker_json(h) == json_wrapped(lenient_json_loads(value(h)))

----------------------------------------------------------------------------
(* The inputs of the model *)

\* the strings of at most MaxTextLen letters
Texts == UNION { [1..n -> Alphabet] : n \in 0..MaxTextLen }

\* decoded JSON documents
JsonValues ==
    { PyDict(<<Item(<<"a">>, PyStr(<<"b">>))>>),
      PyDict(<<Item(<<"a">>, PyDict(<<Item(<<"b">>, PyStr(<<"a">>))>>))>>),
      PyDict(<<Item(<<"b">>, PyList(<<PyStr(<<"a">>), None, PyStr(<<"b">>)>>))>>),
      PyList(<<PyStr(<<"a">>), PyStr(<<"b">>)>>),
      PyList(<<PyStr(<<"a">>), None>>),
      PyList(<<PyStr(<<"a", "b">>), PyDict(<<Item(<<"a">>, PyStr(<<"b">>))>>)>>),
      PyList(<<>>) }

Paths == { <<"a">>, <<"b">>, <<"[", "*", "]">>, <<"[", "0", "]">> }

\* JSON and near-JSON texts: null, "a", [null], [], {"a":null}, {a:'b',}
JsonTexts ==
    { <<"n", "u", "l", "l">>,
      <<"\"", "a", "\"">>,
      <<"[", "n", "u", "l", "l", "]">>,
      <<"[", "]">>,
      <<"{", "\"", "a", "\"", ":", "n", "u", "l", "l", "}">>,
      <<"{", "a", ":", "'", "b", "'", ",", "}">> }

\* the documents that enter the query layer: a text, nothing, or decoded JSON
Documents ==
    { husked(PyStr(s)) : s \in Texts \cup JsonTexts } \cup { husked(None) }
        \cup { JmesPathHusker(j) : j \in JsonValues }

\* the values handed to husk besides a node: strings, None, sequences of strings,
\* and the values husk refuses
RawValues ==
    { PyStr(s) : s \in Texts } \cup { None }
        \cup { PyList(<<PyStr(s)>>) : s \in Texts }
        \cup { PyTuple(<<>>), PyGenerator(<<PyStr(<<"a">>), None>>),
               PyBytes(<<"a">>), PyInt(<<"1">>) }

\* the classes of the nodes at the leaves of h
RECURSIVE LeafClasses(_)
LeafClasses(h) ==
    IF h.cls = "ListHusker"
    THEN UNION { LeafClasses(value(h).seq[i]) : i \in 1..len(h) }
    ELSE { h.cls }

\* the string specs h and its children understand: regexes for text, paths for JSON
StringSpecs(h) ==
    IF "JmesPathHusker" \in LeafClasses(h)
    THEN IF "TextHusker" \in LeafClasses(h) THEN { <<"a">>, <<"b">> } ELSE Paths
    ELSE Patterns

\* specs for text besides a string: a precompiled pattern, and a regex with flags
\* (no flag, DOTALL, a letter that names no flag, and flags for a compiled pattern)
CompiledSpecs == { <<Pattern(<<"a">>, <<>>)>>, <<Pattern(<<"b">>, <<>>)>> }
FlaggedSpecs ==
    { <<PyStr(<<"a">>), PyStr(f)>> : f \in { <<>>, <<"s">>, <<"z">> } }
        \cup { <<Pattern(<<"a">>, <<>>), PyStr(<<"s">>)>> }

\* the argument tuples of selection, one, some, first, last, any, all
Specs(h) ==
    { <<PyStr(p)>> : p \in StringSpecs(h) }
        \cup (IF h.cls \in {"ListHusker", "NullHusker"} THEN { <<>>, <<PyBool>> } ELSE {})
        \cup (IF "JmesPathHusker" \in LeafClasses(h) THEN {}
              ELSE CompiledSpecs \cup FlaggedSpecs)

\* one spec of an _of operator: a bare spec, or a list or tuple of arguments
OfSpecs(h) ==
    { PyStr(p) : p \in StringSpecs(h) } \cup { PyList(<<PyStr(<<"a">>)>>) }
        \cup (IF "JmesPathHusker" \in LeafClasses(h) THEN {}
              ELSE { Pattern(<<"a">>, <<>>), PyList(<<PyStr(<<"a">>), PyStr(<<"s">>)>>) })
        \cup IF h.cls \in {"ListHusker", "NullHusker"} THEN { PyTuple(<<>>), PyBool } ELSE {}

AllSpecs(h) == UNION { [1..n -> OfSpecs(h)] : n \in 0..MaxSpecs }

----------------------------------------------------------------------------
(* The state machine: operations invoked on self, and chaining into a result *)

Init ==
    /\ self \in Documents
    /\ call = [op |-> "husk", args |-> <<>>]
    /\ outcome = NoCall
    /\ evaluated = <<>>
    /\ history = <<>>

\* the call of method op of self's class with one spec
Invoke(op, args, result) ==
    /\ outcome = NoCall
    /\ call' = [op |-> op, args |-> args]
    /\ outcome' = IF self.cls = "NullHusker" THEN NullHusker_attr(self, op) ELSE result
    /\ UNCHANGED history
    /\ evaluated' = IF self.cls = "NullHusker" THEN <<>> ELSE <<args>>
    /\ UNCHANGED self

\* the call of an _of method of self's class
InvokeOf(op, args, run) ==
    /\ outcome = NoCall
    /\ call' = [op |-> op, args |-> args]
    /\ outcome' = IF self.cls = "NullHusker" THEN NullHusker_attr(self, op) ELSE run.out
    /\ UNCHANGED history
    /\ evaluated' = IF self.cls = "NullHusker" THEN <<>> ELSE run.log
    /\ UNCHANGED self

CallSelection == \E spec \in Specs(self) : Invoke("selection", spec, selection(self, spec))
CallOne == \E spec \in Specs(self) : Invoke("one", spec, one(self, spec))
CallSome == \E spec \in Specs(self) : Invoke("some", spec, some(self, spec))
CallFirst == \E spec \in Specs(self) : Invoke("first", spec, first(self, spec))
CallLast == \E spec \in Specs(self) : Invoke("last", spec, last(self, spec))
CallAny == \E spec \in Specs(self) : Invoke("any", spec, any(self, spec))
CallAll == \E spec \in Specs(self) : Invoke("all", spec, all(self, spec))

CallOneOf == \E all_specs \in AllSpecs(self) : InvokeOf("one_of", all_specs, one_of_run(self, all_specs))
CallSomeOf == \E all_specs \in AllSpecs(self) : InvokeOf("some_of", all_specs, some_of_run(self, all_specs))
CallFirstOf == \E all_specs \in AllSpecs(self) : InvokeOf("first_of", all_specs, first_of_run(self, all_specs))
CallAnyOf == \E all_specs \in AllSpecs(self) : InvokeOf("any_of", all_specs, any_of_run(self, all_specs))

\* an operation of the shared capability set invoked on the Null node
CallNullOp ==
    /\ outcome = NoCall
    /\ self.cls = "NullHusker"
    /\ \E op \in NullOps :
        /\ call' = [op |-> op, args |-> <<>>]
        /\ outcome' = NullHusker_attr(self, op)
    /\ UNCHANGED history
    /\ evaluated' = <<>>
    /\ UNCHANGED self

\* husk(x), for a raw value or for the node at hand
CallHusk ==
    \E x \in RawValues \cup {self} :
        /\ outcome = NoCall
        /\ call' = [op |-> "husk", args |-> <<x>>]
        /\ outcome' = husk(x)
        /\ UNCHANGED history
        /\ evaluated' = <<>>
        /\ UNCHANGED self

\* bool(self): the truth value of the node
CallBool ==
    /\ outcome = NoCall
    /\ call' = [op |-> "__bool__", args |-> <<>>]
    /\ outcome' = Return(PyBoolean(bool(self)))
    /\ UNCHANGED history
    /\ evaluated' = <<>>
    /\ UNCHANGED self

\* husk of the package revision on a raw value or on a node
CallPackageHusk ==
    \E x \in RawValues \cup {self} :
        /\ outcome = NoCall
        /\ call' = [op |-> "package_husk", args |-> <<x>>]
        /\ outcome' = package_husk(x)
        /\ UNCHANGED history
        /\ evaluated' = <<>>
        /\ UNCHANGED self

\* the caller goes on with the node a query or husk returned (the nodes of the
\* package revision are no receivers of the methods of husker.py)
Chain ==
    /\ Returned(outcome)
    /\ call.op # "package_husk"
    /\ IsHusker(outcome.val)
    /\ self' = outcome.val
    /\ call' = [op |-> "chain", args |-> <<>>]
    /\ outcome' = NoCall
    /\ UNCHANGED history
    /\ evaluated' = <<>>

\* the caller drops the result and stays with self
Discard ==
    /\ outcome # NoCall
    /\ call' = [op |-> "discard", args |-> <<>>]
    /\ outcome' = NoCall
    /\ UNCHANGED history
    /\ evaluated' = <<>>
    /\ UNCHANGED self

\* self.repr_spec(*spec)
CallReprSpec ==
    \E spec \in Specs(self) :
        /\ outcome = NoCall
        /\ call' = [op |-> "repr_spec", args |-> spec]
        /\ outcome' = repr_spec(self, spec)
        /\ UNCHANGED history
        /\ evaluated' = <<>>
        /\ UNCHANGED self

\* self.repr_value()
CallReprValue ==
    /\ outcome = NoCall
    /\ call' = [op |-> "repr_value", args |-> <<>>]
    /\ outcome' = repr_value(self)
    /\ UNCHANGED history
    /\ evaluated' = <<>>
    /\ UNCHANGED self

\* self.json() on a Text node
CallJson ==
    /\ outcome = NoCall
    /\ self.cls = "TextHusker"
    /\ call' = [op |-> "json", args |-> <<>>]
    /\ outcome' = Husker_json(self)
    /\ UNCHANGED history
    /\ evaluated' = <<>>
    /\ UNCHANGED self

Next ==
    \/ CallSelection \/ CallOne \/ CallSome \/ CallFirst \/ CallLast \/ CallAny \/ CallAll
    \/ CallOneOf \/ CallSomeOf \/ CallFirstOf \/ CallAnyOf
    \/ CallNullOp \/ CallHusk \/ CallPackageHusk \/ CallBool \/ CallJson
    \/ CallReprSpec \/ CallReprValue \/ Chain \/ Discard

Spec == Init /\ [][Next]_vars

----------------------------------------------------------------------------
(* The cardinality contract *)

\* the call just made on a node other than the Null node
Called(op) == call.op = op /\ self.cls # "NullHusker" /\ outcome # NoCall

\* self.selection(*spec) for the spec of the call just made
Selected == selection(self, call.args)

\* C1: on a non-Null node, one(spec) returns the single element of selection(spec)
\* when there is exactly one, raises HuskerMismatch when there is none and
\* HuskerNotUnique when there are several.
C1_One ==
    (Called("one") /\ Returned(Selected)) =>
        /\ len(Selected.val) = 1 => outcome = Return(getitem(Selected.val, 0))
        /\ len(Selected.val) = 0 => Raised(outcome, "HuskerMismatch")
        /\ len(Selected.val) > 1 => Raised(outcome, "HuskerNotUnique")

\* C2: on a non-Null node, some(spec) returns the Null node when selection(spec) is
\* empty, its single element when there is exactly one, and raises HuskerNotUnique
\* when there are several.
C2_Some ==
    (Called("some") /\ Returned(Selected)) =>
        /\ len(Selected.val) = 0 => outcome = Return(NULL_HUSKER)
        /\ len(Selected.val) = 1 => outcome = Return(getitem(Selected.val, 0))
        /\ len(Selected.val) > 1 => Raised(outcome, "HuskerNotUnique")

\* C3: on a non-Null node, first(spec) returns the first and last(spec) the last
\* element of selection(spec) whenever it is non-empty, however many matches there
\* are, and both raise HuskerMismatch when it is empty.
C3_FirstLast ==
    /\ (Called("first") /\ Returned(Selected)) =>
          IF len(Selected.val) = 0 THEN Raised(outcome, "HuskerMismatch")
          ELSE outcome = Return(value(Selected.val).seq[1])
    /\ (Called("last") /\ Returned(Selected)) =>
          IF len(Selected.val) = 0 THEN Raised(outcome, "HuskerMismatch")
          ELSE outcome = Return(value(Selected.val).seq[len(Selected.val)])

\* C4: on a non-Null node, any(spec) never raises a cardinality error: it returns
\* the Null node when selection(spec) is empty and its first element otherwise.
C4_Any ==
    (Called("any") /\ Returned(Selected)) =>
        /\ ~Raised(outcome, "HuskerMismatch")
        /\ ~Raised(outcome, "HuskerNotUnique")
        /\ ~Raised(outcome, "HuskerMultipleSpecMatch")
        /\ outcome = IF len(Selected.val) = 0 THEN Return(NULL_HUSKER)
                     ELSE Return(value(Selected.val).seq[1])

C4_Witness ==
    /\ Called("any") /\ Returned(Selected) /\ len(Selected.val) > 1
    /\ value(Selected.val).seq[1] # value(Selected.val).seq[len(Selected.val)]
    /\ outcome = Return(value(Selected.val).seq[1])

\* C5: on a non-Null node, all(spec) returns the complete sequence selection(spec),
\* same elements in the same order, when it is non-empty and raises HuskerMismatch
\* when it is empty.
C5_All ==
    (Called("all") /\ Returned(Selected)) =>
        IF len(Selected.val) = 0 THEN Raised(outcome, "HuskerMismatch")
        ELSE /\ Returned(outcome)
             /\ outcome.val.cls = "ListHusker"
             /\ value(outcome.val).seq = value(Selected.val).seq

----------------------------------------------------------------------------
(* The _of operators *)

\* self.selection(*spec) for the i-th spec of the _of call just made
SpecSelection(i) == selection(self, spec_args(call.args[i]))

\* the i-th spec matches on its own: its selection on self is non-empty
SpecMatches(i) == Returned(SpecSelection(i)) /\ len(SpecSelection(i).val) > 0

\* the specs of the call that match on their own
MatchingSpecs == { i \in 1..Len(call.args) : SpecMatches(i) }

\* the selection of every spec of the call is defined
AllSelected == \A i \in 1..Len(call.args) : Returned(SpecSelection(i))

\* the earliest of a non-empty set of positions
Earliest(S) == CHOOSE k \in S : \A i \in S : k <= i

\* C6: one_of and some_of raise HuskerMultipleSpecMatch whenever more than one of
\* the specs has a non-empty selection on the node, whatever the values matched,
\* and return a match only when exactly one spec matches.
C6_OneOfSomeOf ==
    ((Called("one_of") \/ Called("some_of")) /\ AllSelected) =>
        /\ Cardinality(MatchingSpecs) > 1 => Raised(outcome, "HuskerMultipleSpecMatch")
        /\ (Returned(outcome) /\ IsHusker(outcome.val) /\ outcome.val.cls # "NullHusker")
              => Cardinality(MatchingSpecs) = 1

\* C7: first_of and any_of return the first match of the earliest spec whose
\* selection is non-empty and evaluate no spec after it; when no spec matches,
\* first_of raises HuskerMismatch and any_of returns the Null node.
C7_FirstOfAnyOf ==
    ((Called("first_of") \/ Called("any_of")) /\ AllSelected) =>
        IF MatchingSpecs # {}
        THEN /\ outcome = Return(value(SpecSelection(Earliest(MatchingSpecs)).val).seq[1])
             /\ evaluated = [i \in 1..Earliest(MatchingSpecs) |-> spec_args(call.args[i])]
        ELSE IF call.op = "first_of" THEN Raised(outcome, "HuskerMismatch")
        ELSE outcome = Return(NULL_HUSKER)

\* C8: a soft operator that finds no match returns the Null node; in particular
\* some_of returns the Null node when none of its specs matches.
C8_NoMatchIsNull ==
    /\ ((Called("some") \/ Called("any")) /\ Returned(Selected) /\ len(Selected.val) = 0)
          => (Returned(outcome) /\ outcome.val.cls = "NullHusker")
    /\ ((Called("some_of") \/ Called("any_of")) /\ AllSelected /\ MatchingSpecs = {})
          => (Returned(outcome) /\ outcome.val.cls = "NullHusker")

\* C9: every operation of the shared capability set invoked on the Null node
\* returns the Null node or None and never raises.
C9_NullAbsorbs ==
    (self.cls = "NullHusker" /\ outcome # NoCall
        /\ call.op \notin {"husk", "package_husk", "__bool__"})
        => outcome \in { Return(NULL_HUSKER), Return(None) }

\* C10: husk returns an already-wrapped node unchanged and does not raise.
C10_HuskIdempotent ==
    (call.op = "husk" /\ outcome # NoCall /\ IsHusker(call.args[1]))
        => outcome = Return(call.args[1])

----------------------------------------------------------------------------
(* husk on sequences, and truthiness *)

\* C11: husk of a list, tuple or generator returns a Sequence node of the same
\* length and order in which every item has itself been wrapped by husk.
C11_HuskWrapsItems ==
    (call.op = "husk" /\ outcome # NoCall
        /\ call.args[1].cls \in {"list", "tuple", "generator"}) =>
        /\ Returned(outcome)
        /\ outcome.val.cls = "ListHusker"
        /\ len(outcome.val) = Len(call.args[1].seq)
        /\ \A i \in 1..Len(call.args[1].seq) :
              /\ IsHusker(value(outcome.val).seq[i])
              /\ value(outcome.val).seq[i] = husked(call.args[1].seq[i])

\* C12: a node is truthy when it holds a value at all: a Text node is truthy even
\* when it wraps the empty string, the Null node is falsy, a Sequence node is
\* truthy exactly when it is not empty; so first_of and any_of take a spec whose
\* first match is an empty-string Text node as having matched.
C12_Truthiness ==
    /\ (call.op = "__bool__" /\ outcome # NoCall) =>
          /\ self.cls = "TextHusker" => outcome = Return(PyBoolean(TRUE))
          /\ self.cls = "NullHusker" => outcome = Return(PyBoolean(FALSE))
          /\ self.cls = "ListHusker" => outcome = Return(PyBoolean(len(self) > 0))
    /\ ((Called("first_of") \/ Called("any_of")) /\ Len(call.args) > 0
           /\ Returned(SpecSelection(1)) /\ len(SpecSelection(1).val) > 0
           /\ value(SpecSelection(1).val).seq[1] = TextHusker(PyStr(<<>>)))
          => outcome = Return(TextHusker(PyStr(<<>>)))

----------------------------------------------------------------------------
(* Text search *)

\* the matches of the regex of the call in the text of self
TextMatches == re_finditer(call.args[1].str, value(self).str)

\* the call just made is text.selection(regex)
TextSelected ==
    /\ Called("selection") /\ self.cls = "TextHusker"
    /\ Len(call.args) = 1 /\ call.args[1].cls = "str"

\* one element for each match, in the order of the matches; an element is a
\* Sequence node of the groups when the pattern has two groups or more
OnePerMatch ==
    /\ Returned(outcome) /\ outcome.val.cls = "ListHusker"
    /\ len(outcome.val) = Len(TextMatches)
    /\ re_groups(call.args[1].str) >= 2 =>
          \A i \in 1..Len(TextMatches) :
              /\ getitem(outcome.val, i - 1).cls = "ListHusker"
              /\ len(getitem(outcome.val, i - 1)) = re_groups(call.args[1].str)
    /\ re_groups(call.args[1].str) = 0 =>
          \A i \in 1..Len(TextMatches) :
              getitem(outcome.val, i - 1) =
                  TextHusker(PyStr(SubSeq(value(self).str, TextMatches[i].start,
                                          TextMatches[i].start + TextMatches[i].len - 1)))

\* C14 as stated: text.selection(pattern) has one element for each match, in match
\* order; with 0 or 1 groups every element is a Text node, the whole match or the
\* one group; with 2 groups or more every element is a Sequence node as long as
\* the pattern has groups.
C14_GroupRule ==
    TextSelected =>
        /\ OnePerMatch
        /\ re_groups(call.args[1].str) < 2 =>
              \A i \in 1..Len(TextMatches) : getitem(outcome.val, i - 1).cls = "TextHusker"

\* C14, amended: as above, but with 1 group an element is the Text node of the
\* group when the group took part in the match and the Null node when it did not,
\* and with 2 groups or more the items of an element are such nodes, group by group.
C14_GroupRuleOrNull ==
    TextSelected =>
        /\ OnePerMatch
        /\ re_groups(call.args[1].str) = 1 =>
              \A i \in 1..Len(TextMatches) :
                  getitem(outcome.val, i - 1) =
                      IF TextMatches[i].groups[1] = None THEN NULL_HUSKER
                      ELSE TextHusker(TextMatches[i].groups[1])
        /\ re_groups(call.args[1].str) >= 2 =>
              \A i \in 1..Len(TextMatches) :
                  \A g \in 1..re_groups(call.args[1].str) :
                      getitem(getitem(outcome.val, i - 1), g - 1) =
                          IF TextMatches[i].groups[g] = None THEN NULL_HUSKER
                          ELSE TextHusker(TextMatches[i].groups[g])

C14_Witness ==
    /\ TextSelected /\ re_groups(call.args[1].str) = 1
    /\ value(self).str = <<"b">>
    /\ Returned(outcome) /\ len(outcome.val) = 1
    /\ getitem(outcome.val, 0) = NULL_HUSKER

----------------------------------------------------------------------------
(* Structured data: what a path selects *)

\* a call with a path on a Structured-data node
PathCalled(op) ==
    /\ Called(op) /\ self.cls = "JmesPathHusker"
    /\ Len(call.args) = 1 /\ call.args[1].cls = "str"

\* the value the path of the call selects in the value of self; None for nothing
Found == jmespath_search(call.args[1].str, value(self))

\* C23: on a Structured-data node, one, first, last and all raise HuskerMismatch
\* when the path is a key that the wrapped object does not have.
C23_AbsentIsMismatch ==
    \A op \in {"one", "first", "last", "all"} :
        ( /\ PathCalled(op)
          /\ value(self).cls = "dict"
          /\ \A i \in 1..Len(value(self).seq) : value(self).seq[i].str # call.args[1].str
          /\ \A i \in 1..Len(call.args[1].str) : call.args[1].str[i] # "[" )
        => Raised(outcome, "HuskerMismatch")

\* C24: selection(path) has one element for each value the path selects: a Text
\* node for a string, whole, and a Structured-data node around any other value;
\* a path without a bracket gives one element.
C24_OnePerValue ==
    (PathCalled("selection") /\ Found # None) =>
        /\ Returned(outcome)
        /\ (Found.cls # "list" \/ \A i \in 1..Len(call.args[1].str) : call.args[1].str[i] # "[")
              => ( /\ len(outcome.val) = 1
                   /\ getitem(outcome.val, 0) = JmesPathHusker_child(Found) )
        /\ (Found.cls = "list" /\ \E i \in 1..Len(call.args[1].str) : call.args[1].str[i] = "[")
              => ( /\ len(outcome.val) = Len(Found.seq)
                   /\ \A i \in 1..Len(Found.seq) :
                         getitem(outcome.val, i - 1) = JmesPathHusker_child(Found.seq[i]) )

----------------------------------------------------------------------------
(* Sequences: the children a selection keeps *)

\* whether a child is one the call is to keep: all of them without an argument,
\* those the callable holds true of, those whose own selection has a match
Passes(child, args) ==
    IF args = <<>> THEN TRUE
    ELSE IF args[1] = PyBool THEN bool(child)
    ELSE /\ Returned(selection(child, args))
         /\ len(selection(child, args).val) >= 1

RECURSIVE Passing(_, _)
Passing(children, args) ==
    IF children = <<>> THEN <<>>
    ELSE (IF Passes(Head(children), args) THEN <<Head(children)>> ELSE <<>>)
             \o Passing(Tail(children), args)

\* C26: selection on a Sequence node returns the children that pass, in their
\* order: all without an argument, those a callable is truthy for, and for any
\* other argument those whose own selection of it has at least one match.
C26_ChildrenThatPass ==
    (Called("selection") /\ self.cls = "ListHusker" /\ Returned(outcome)) =>
        /\ outcome.val.cls = "ListHusker"
        /\ value(outcome.val).seq = Passing(value(self).seq, call.args)

\* a spec keeps some children of a Sequence and drops others
C26_Witness ==
    /\ Called("selection") /\ self.cls = "ListHusker" /\ Returned(outcome)
    /\ call.args # <<>> /\ call.args[1].cls = "str"
    /\ len(outcome.val) >= 1
    /\ len(outcome.val) < len(self)

----------------------------------------------------------------------------
(* Element nodes: the attributes and the trees of the model, and the calls *)

\* attribute names and values
AttribNames == { <<"i", "d">>, <<"h", "r", "e", "f">> }

AttribValues ==
    { PyStr(<<>>), PyStr(<<"a">>), PyStr(<<"&", "a", "m", "p", ";">>),
      PyStr(<<"a", "&", "l", "t", ";", "b">>), PyStr(<<"&", "a">>), PyBytes(<<"b">>) }

\* the attrib of an element: each name is absent or has a value
Attribs ==
    { <<>> } \cup { <<Item(n, v)>> : n \in AttribNames, v \in AttribValues }
        \cup { <<Item(<<"i", "d">>, v), Item(<<"h", "r", "e", "f">>, w)>> :
                 v \in AttribValues, w \in AttribValues }

\* the defaults a caller passes to attrib
Defaults == { NULL_HUSKER, None, TextHusker(PyStr(<<"a">>)) }

\* elements that differ in their attributes only
AttribElements == { Element(<<"a">>, at, None, None, <<>>) : at \in Attribs }

\* element[item]
CallElementGetitem ==
    \E item \in AttribNames :
        /\ outcome = NoCall
        /\ self.cls = "ElementHusker"
        /\ call' = [op |-> "__getitem__", args |-> <<PyStr(item)>>]
        /\ outcome' = ElementHusker_getitem(self, PyStr(item))
        /\ UNCHANGED history
        /\ evaluated' = <<>>
        /\ UNCHANGED self

\* element.attrib(item) and element.attrib(item, default)
CallElementAttrib ==
    \E item \in AttribNames :
        /\ outcome = NoCall
        /\ self.cls = "ElementHusker"
        /\ \/ /\ call' = [op |-> "attrib", args |-> <<PyStr(item)>>]
              /\ outcome' = ElementHusker_attrib(self, PyStr(item), NULL_HUSKER)
           \/ \E default \in Defaults :
                 /\ call' = [op |-> "attrib", args |-> <<PyStr(item), default>>]
                 /\ outcome' = ElementHusker_attrib(self, PyStr(item), default)
        /\ UNCHANGED history
        /\ evaluated' = <<>>
        /\ UNCHANGED self

\* the element of self carries the attribute the call names
HasAttrib ==
    \E i \in 1..Len(E_attrib(value(self)).seq) :
        E_attrib(value(self)).seq[i].str = call.args[1].str

\* the call just made on an Element node
ElementCalled(op) == call.op = op /\ self.cls = "ElementHusker" /\ outcome # NoCall

\* C13: on an Element node, attrib(name) returns the Null node, or the default the
\* caller passed, when the attribute is absent and a Text node when it is present;
\* element[name] raises HuskerAttributeNotFound when it is absent; for a present
\* attribute both return the same Text value.
C13_AttribVsItem ==
    /\ ElementCalled("attrib") =>
          IF HasAttrib
          THEN /\ Returned(outcome) /\ outcome.val.cls = "TextHusker"
               /\ outcome = ElementHusker_getitem(self, call.args[1])
          ELSE outcome = Return(IF Len(call.args) = 2 THEN call.args[2] ELSE NULL_HUSKER)
    /\ ElementCalled("__getitem__") =>
          IF HasAttrib
          THEN /\ Returned(outcome) /\ outcome.val.cls = "TextHusker"
               /\ outcome = ElementHusker_attrib(self, call.args[1], NULL_HUSKER)
          ELSE Raised(outcome, "HuskerAttributeNotFound")

C13_Witness ==
    /\ ElementCalled("__getitem__") /\ HasAttrib
    /\ outcome = Return(TextHusker(PyStr(<<"a", "<", "b">>)))

\* <br> followed by tail
Br(tail) == Element(BR, <<>>, None, tail, <<>>)

\* the text and the tail of the elements of the model
ElementTexts == { None, PyStr(<<"A">>), PyStr(<<" ", "A", " ", "\n", "\n", "\n", " ", "B", "\t">>) }
ElementTails == { None, PyStr(<<"C">>), PyStr(<<" ", "C", " ", " ", "C", " ">>) }

\* the children of the root: containers with or without a <br> inside, and
\* <br>, <script> and comment nodes
Level1 ==
    { Element(tag, <<>>, text, tail, kids) :
        tag \in {DIV, SPAN, PRE}, text \in ElementTexts, tail \in ElementTails,
        kids \in { <<>>, <<Br(PyStr(<<"B">>))>> } }
      \cup { Br(None), Br(PyStr(<<"B">>)),
             Element(SCRIPT, <<>>, PyStr(<<"A">>), PyStr(<<"C">>), <<>>),
             Comment(PyStr(<<"A">>), PyStr(<<"C">>)) }

\* the second child of the root, when it has two
Level1Last ==
    { Element(DIV, <<>>, PyStr(<<"C">>), None, <<>>), Br(PyStr(<<"B">>)),
      Element(PRE, <<>>, PyStr(<<" ", "A", " ", "\n", "\n", "\n", " ", "B", "\t">>),
              PyStr(<<" ", "C", " ", " ", "C", " ">>), <<>>) }

\* the trees of the model: a <span> around one or two children
Trees ==
    { Element(SPAN, <<>>, None, None, <<n>>) : n \in Level1 }
      \cup { Element(SPAN, <<>>, None, None, <<n, m>>) : n \in Level1, m \in Level1Last }

\* element.multiline
CallElementMultiline ==
    /\ outcome = NoCall
    /\ self.cls = "ElementHusker"
    /\ call' = [op |-> "multiline", args |-> <<>>]
    /\ outcome' = ElementHusker_multiline(self)
    /\ UNCHANGED history
    /\ evaluated' = <<>>
    /\ UNCHANGED self

\* the tree <span><div>A<br>B</div><div>C</div></span>
ExampleTree ==
    Element(SPAN, <<>>, None, None,
            << Element(DIV, <<>>, PyStr(<<"A">>), None, <<Br(PyStr(<<"B">>))>>),
               Element(DIV, <<>>, PyStr(<<"C">>), None, <<>>) >>)

\* no <pre> in the tree
RECURSIVE NoPre(_)
NoPre(node) ==
    node.str # PRE /\ \A i \in 1..Len(E_children(node)) : NoPre(E_children(node)[i])

\* the line breaks and the normalized texts of a tree without <pre>, in document
\* order, one piece for each
RECURSIVE Pieces(_)
RECURSIVE PiecesOfAll(_)
Pieces(node) ==
    <<yielded_break(node.str)>>
        \o (IF has_text(node)
            THEN <<yielded_text(E_text(node), FALSE)>> \o PiecesOfAll(E_children(node))
            ELSE <<>>)
        \o <<yielded_close(node.str), yielded_text(E_tail(node), FALSE)>>

PiecesOfAll(children) ==
    IF children = <<>> THEN <<>> ELSE Pieces(Head(children)) \o PiecesOfAll(Tail(children))

IsBreak(piece) == piece # <<>> /\ \A i \in 1..Len(piece) : piece[i] = "\n"

Newlines(n) == [i \in 1..n |-> "\n"]

Min(a, b) == IF a < b THEN a ELSE b

\* the texts of the pieces, each two separated by as many newlines as the breaks
\* between them ask for, a <br> one and a block boundary two, and by two at most
RECURSIVE Rendered(_, _, _)
Rendered(pieces, out, pending) ==
    IF pieces = <<>> THEN out
    ELSE IF Head(pieces) = <<>> THEN Rendered(Tail(pieces), out, pending)
    ELSE IF IsBreak(Head(pieces))
    THEN Rendered(Tail(pieces), out, pending + Len(Head(pieces)))
    ELSE Rendered(Tail(pieces),
                  (IF out = <<>> THEN <<>> ELSE out \o Newlines(Min(2, pending)))
                      \o Head(pieces),
                  0)

\* C15: the multiline text of an element has a single newline for every <br> and
\* one blank line for every boundary of a block-level tag, never more than one
\* blank line in a row, and no whitespace at its start or end;
\* <div>A<br>B</div><div>C</div> gives "A\nB\n\nC".
C15_Multiline ==
    ElementCalled("multiline") =>
        /\ Returned(outcome) /\ outcome.val.cls = "TextHusker"
        /\ LET s == value(outcome.val).str
           IN  /\ s # <<>> => (s[1] \notin Whitespace /\ s[Len(s)] \notin Whitespace)
               /\ \A i \in 1..(Len(s) - 2) :
                     ~(s[i] = "\n" /\ s[i + 1] = "\n" /\ s[i + 2] = "\n")
               /\ NoPre(value(self)) => s = Rendered(Pieces(value(self)), <<>>, 0)
               /\ value(self) = ExampleTree => s = <<"A", "\n", "B", "\n", "\n", "C">>

C15_Witness ==
    /\ ElementCalled("multiline") /\ value(self) = ExampleTree
    /\ outcome = Return(TextHusker(PyStr(<<"A", "\n", "B", "\n", "\n", "C">>)))

\* the paths of the model: a tag name, bare or after ".", "/" or "//"
ElementPaths ==
    { prefix \o name :
        prefix \in { <<>>, <<"/">>, <<"/", "/">>, <<".", "/">>, <<".", "/", "/">> },
        name \in { BR, DIV } }

\* element.selection(path); evaluated records the XPath that was run
CallElementSelection ==
    \E path \in ElementPaths :
        /\ outcome = NoCall
        /\ self.cls = "ElementHusker"
        /\ call' = [op |-> "selection", args |-> <<PyStr(path)>>]
        /\ outcome' = ElementHusker_selection(self, PyStr(path))
        /\ UNCHANGED history
        /\ evaluated' = IF Returned(compile_xpath(self, path))
                        THEN <<<<compile_xpath(self, path).val>>>>
                        ELSE <<>>
        /\ UNCHANGED self

\* s has the characters of part somewhere in it, one after the other
Contains(s, part) ==
    \E i \in 0..(Len(s) - Len(part)) : SubSeq(s, i + 1, i + Len(part)) = part

\* C22: in multiline text, the text of a <pre> is in the result as it is in the
\* tree, runs of whitespace included (the edges of the result are trimmed), and
\* the text that follows </pre> is in the result with its whitespace normalized.
C22_PreVerbatim ==
    ElementCalled("multiline") =>
        \A i \in 1..Len(E_children(value(self))) :
            LET node == E_children(value(self))[i] IN
            (node.str = PRE /\ node.cls = "_Element") =>
                /\ E_text(node) # None =>
                      Contains(value(outcome.val).str, strip(E_text(node).str))
                /\ E_tail(node) # None =>
                      Contains(value(outcome.val).str, normalize_spaces(E_tail(node).str))

\* the paths handed to _compile_xpath: those the code classifies as XPath
CompilePaths ==
    { p \in { prefix \o rest :
                prefix \in { <<>>, <<".">>, <<"/">>, <<"/", "/">>, <<".", "/">>,
                             <<".", "/", "/">>, <<"/", "/", "/">>, <<".", ".", "/">> },
                rest \in { BR, <<"@", "a">>, <<"a", "/", "b">>, <<"*">> } } :
        is_xpath(p) }

\* element._compile_xpath(path)
CallCompileXpath ==
    \E path \in CompilePaths :
        /\ outcome = NoCall
        /\ self.cls = "ElementHusker"
        /\ call' = [op |-> "_compile_xpath", args |-> <<PyStr(path)>>]
        /\ outcome' = compile_xpath(self, path)
        /\ UNCHANGED history
        /\ evaluated' = <<>>
        /\ UNCHANGED self

\* an element with another tail, another text, other children
with_tail(e, tail) == Obj(e.cls, e.str, <<E_attrib(e), E_text(e), tail, e.seq[4]>>)
with_text(e, text) == Obj(e.cls, e.str, <<E_attrib(e), text, E_tail(e), e.seq[4]>>)
with_children(e, children) ==
    Obj(e.cls, e.str, <<E_attrib(e), E_text(e), E_tail(e), PyList(children)>>)

\* (text or '') + tail
text_joined(text, tail) == IF text = None THEN tail ELSE PyStr(text.str \o tail.str)

\* the children without the one at position i
without_child(children, i) ==
    SubSeq(children, 1, i - 1) \o SubSeq(children, i + 1, Len(children))

\* the tail of a node taken out goes to the node before it or, for a first
\* child, to the text of the parent
tail_reattached(parent, i, tail) ==
    IF i = 1 THEN with_text(parent, text_joined(E_text(parent), tail))
    ELSE with_children(
             parent,
             [k \in 1..Len(E_children(parent)) |->
                IF k = i - 1
                THEN with_tail(E_children(parent)[k],
                               text_joined(E_tail(E_children(parent)[k]), tail))
                ELSE E_children(parent)[k]])

\* the parent once its child at position i is taken out
child_removed(parent, i) == with_children(parent, without_child(E_children(parent), i))

\* detach_node(node, reattach_tail), for the child at position i of parent: the
\* node leaves the tree, its tail text with it unless it is to be reattached
detach_node(parent, i, reattach_tail) ==
    IF reattach_tail /\ bool(E_tail(E_children(parent)[i]))
    THEN child_removed(tail_reattached(parent, i, E_tail(E_children(parent)[i])), i)
    ELSE child_removed(parent, i)

\* ElementHusker.detach on the node of a child of the element self wraps: the
\* call is recorded with its receiver
CallDetach ==
    /\ outcome = NoCall
    /\ self.cls = "ElementHusker"
    /\ \E i \in 1..Len(E_children(value(self))), reattach_tail \in BOOLEAN :
        /\ self' = ElementHusker(detach_node(value(self), i, reattach_tail),
                                 is_full_document(self))
        /\ call' = [op |-> "detach",
                    args |-> <<ElementHusker(E_children(value(self))[i], FALSE),
                               PyBoolean(reattach_tail)>>]
    /\ outcome' = Return(None)
    /\ UNCHANGED history
    /\ evaluated' = <<>>

\* the caller goes on with one of the nodes a search returned
ElementDescend ==
    /\ Returned(outcome)
    /\ call.op = "selection"
    /\ \E i \in 1..len(outcome.val) : self' = getitem(outcome.val, i - 1)
    /\ call' = [op |-> "chain", args |-> <<>>]
    /\ outcome' = NoCall
    /\ UNCHANGED history
    /\ evaluated' = <<>>

\* an element parsed on its own, or a tree, wrapped as the full document or not
ElementInit ==
    /\ self \in { ElementHusker(e, FALSE) : e \in AttribElements }
                   \cup { ElementHusker(e, full) : e \in Trees, full \in BOOLEAN }
    /\ call = [op |-> "husk", args |-> <<>>]
    /\ outcome = NoCall
    /\ evaluated = <<>>
    /\ history = <<>>

ElementNext ==
    \/ CallElementGetitem \/ CallElementAttrib \/ CallElementMultiline
    \/ CallElementSelection \/ CallCompileXpath \/ CallDetach \/ ElementDescend
    \/ Discard

ElementSpec == ElementInit /\ [][ElementNext]_vars

\* the tag name of the path of the call, after its leading "/"
PathName == after(call.args[1].str, <<"/">>)

\* the nodes as a search returns them
Huskers(nodes) == Return(ListHusker(PyList([i \in 1..Len(nodes) |-> ElementHusker(nodes[i], FALSE)])))

\* C20 as stated: on an Element node that is not the full document, the path "/x"
\* is compiled to ".//x" and matches x at any depth below the node.
C20_SlashIsDescendant ==
    (ElementCalled("selection") /\ ~is_full_document(self)
        /\ StartsWith(call.args[1].str, <<"/">>) /\ IsWord(PathName)) =>
        /\ evaluated = <<<<PyStr(<<".", "/", "/">> \o PathName)>>>>
        /\ outcome = Huskers(named(descendants(value(self)), PathName))

\* C20, amended: on an Element node that is not the full document, the path "/x"
\* is compiled to "./x" and matches x among the children of the node only; it is
\* the bare name "x" that is compiled to the descendant search ".//x".
C20_SlashIsChild ==
    /\ (ElementCalled("selection") /\ ~is_full_document(self)
           /\ StartsWith(call.args[1].str, <<"/">>) /\ IsWord(PathName)) =>
          /\ evaluated = <<<<PyStr(<<".", "/">> \o PathName)>>>>
          /\ outcome = Huskers(named(E_children(value(self)), PathName))
    /\ (ElementCalled("selection") /\ ~is_full_document(self)
           /\ IsWord(call.args[1].str)) =>
          /\ evaluated = <<<<PyStr(<<".", "/", "/">> \o call.args[1].str)>>>>
          /\ outcome = Huskers(named(descendants(value(self)), call.args[1].str))

C20_Witness ==
    /\ ElementCalled("selection") /\ ~is_full_document(self)
    /\ call.args[1] = PyStr(<<"/">> \o BR)
    /\ Returned(outcome) /\ len(outcome.val) = 0
    /\ named(descendants(value(self)), BR) # <<>>

\* a string without its leading dot, if any, and without the slashes after it
RECURSIVE Unslashed(_)
Unslashed(s) == IF StartsWith(s, <<"/">>) THEN Unslashed(Tail(s)) ELSE s

Remainder(s) == Unslashed(IF StartsWith(s, <<".">>) THEN Tail(s) ELSE s)

\* C21: an XPath compiled on a node that is not the full document begins with
\* "./"; on the full document a path that begins with "/" is left as it is; either
\* way what follows the leading dot and slashes of the path is kept as it was.
C21_ForcedRelative ==
    (ElementCalled("_compile_xpath") /\ Returned(outcome)) =>
        /\ ~is_full_document(self) => StartsWith(outcome.val.str, <<".", "/">>)
        /\ (is_full_document(self) /\ StartsWith(call.args[1].str, <<"/">>))
               => outcome.val = call.args[1]
        /\ Remainder(outcome.val.str) = Remainder(call.args[1].str)

\* an absolute path is compiled on a node inside the document and is made relative
C21_Witness ==
    /\ ElementCalled("_compile_xpath")
    /\ ~is_full_document(self)
    /\ call.args[1] = PyStr(<<"/", "/", "a", "/", "b">>)
    /\ outcome = Return(PyStr(<<".", "/", "/", "a", "/", "b">>))

----------------------------------------------------------------------------
(* StackScheduler: the queries to fetch, on a stack *)

\* StackScheduler.__init__ and the stack of a scheduler
StackScheduler(stack) == Obj("StackScheduler", <<>>, <<PyList(stack)>>)

stack(s) == value(s).seq

Reverse(xs) == [i \in 1..Len(xs) |-> xs[Len(xs) + 1 - i]]

\* reversed that keeps the order
reversed_same(queries) ==
    IF queries.cls \in {"list", "tuple"} THEN Return(PyGenerator(queries.seq))
    ELSE Raise("TypeError")

\* reversed(queries): a generator has no __reversed__ and no __len__
reversed(queries) ==
    IF queries.cls \in {"list", "tuple"} THEN Return(PyGenerator(Reverse(queries.seq)))
    ELSE Raise("TypeError")

\* StackScheduler.add: self.stack.append(query)
StackScheduler_add(s, query) == StackScheduler(Append(stack(s), query))

\* Scheduler.add_all: for query in queries: self.add(query)
RECURSIVE Scheduler_add_all(_, _)
Scheduler_add_all(s, queries) ==
    IF queries = <<>> THEN s
    ELSE Scheduler_add_all(StackScheduler_add(s, Head(queries)), Tail(queries))

\* StackScheduler.add_all, from the value of reversed(queries) on
add_all_reversed(s, rev) == IF Returned(rev) THEN Scheduler_add_all(s, rev.val.seq) ELSE s

\* StackScheduler.add_all: the scheduler afterwards
StackScheduler_add_all(s, queries) == add_all_reversed(s, reversed(queries))

\* what a call of add_all returns or raises
add_all_outcome(rev) == IF Returned(rev) THEN Return(None) ELSE rev

\* StackScheduler.pop: self.stack.pop()
StackScheduler_pop(s) ==
    IF stack(s) = <<>> THEN Raise("IndexError") ELSE Return(stack(s)[Len(stack(s))])

\* the scheduler after pop
popped(s) ==
    IF stack(s) = <<>> THEN s ELSE StackScheduler(SubSeq(stack(s), 1, Len(stack(s)) - 1))

\* StackScheduler.__len__
StackScheduler_len(s) == Len(stack(s))

\* Scheduler.empty
Scheduler_empty(s) == Return(PyBoolean(StackScheduler_len(s) = 0))

\* the queries of the model, and the batches handed to add_all
Queries == { PyStr(<<"a">>), PyStr(<<"b">>) }

Batches ==
    { PyList(<<>>), PyList(<<PyStr(<<"a">>)>>), PyList(<<PyStr(<<"a">>), PyStr(<<"b">>)>>),
      PyTuple(<<PyStr(<<"b">>), PyStr(<<"b">>)>>),
      PyGenerator(<<PyStr(<<"a">>), PyStr(<<"b">>)>>) }

\* a completed call, as history keeps it
Done(op, args, out) == [op |-> op, args |-> args, outcome |-> out]

\* a call on the scheduler: its effect on self, and its record
SchedulerCall(op, args, after_call, out) ==
    /\ self.cls = "StackScheduler"
    /\ Len(history) < MaxCalls
    /\ self' = after_call
    /\ call' = [op |-> op, args |-> args]
    /\ outcome' = out
    /\ history' = Append(history, Done(op, args, out))
    /\ UNCHANGED evaluated

CallAdd ==
    \E query \in Queries :
        SchedulerCall("add", <<query>>, StackScheduler_add(self, query), Return(None))

CallAddAll ==
    \E queries \in Batches :
        SchedulerCall("add_all", <<queries>>, StackScheduler_add_all(self, queries),
                      add_all_outcome(reversed(queries)))

CallPop == SchedulerCall("pop", <<>>, popped(self), StackScheduler_pop(self))

CallEmpty == SchedulerCall("empty", <<>>, self, Scheduler_empty(self))

SchedulerInit ==
    /\ self = StackScheduler(<<>>)
    /\ call = [op |-> "__init__", args |-> <<>>]
    /\ outcome = NoCall
    /\ evaluated = <<>>
    /\ history = <<>>

SchedulerNext == CallAdd \/ CallAddAll \/ CallPop \/ CallEmpty

SchedulerSpec == SchedulerInit /\ [][SchedulerNext]_vars

----------------------------------------------------------------------------
(* The scheduler: depth first, each query once *)

\* the call at position i of the history is this operation, and it returned
Returns(i, op) ==
    /\ i \in 1..Len(history)
    /\ history[i].op = op
    /\ Returned(history[i].outcome)

\* the calls i+1 .. i+k are all calls of pop
PopsFollow(i, k) == \A j \in 1..k : i + j <= Len(history) /\ history[i + j].op = "pop"

\* how often query q was added, and how often it was popped, in the first n calls
RECURSIVE Occurrences(_, _)
Occurrences(xs, q) ==
    IF xs = <<>> THEN 0
    ELSE (IF Head(xs) = q THEN 1 ELSE 0) + Occurrences(Tail(xs), q)

RECURSIVE Added(_, _)
Added(n, q) ==
    IF n = 0 THEN 0
    ELSE Added(n - 1, q)
         + (IF Returns(n, "add") /\ history[n].args[1] = q THEN 1 ELSE 0)
         + (IF Returns(n, "add_all") THEN Occurrences(history[n].args[1].seq, q) ELSE 0)

RECURSIVE Popped(_, _)
Popped(n, q) ==
    IF n = 0 THEN 0
    ELSE Popped(n - 1, q) + (IF Returns(n, "pop") /\ history[n].outcome.val = q THEN 1 ELSE 0)

\* C16: the pops that follow add_all(queries) return the queries in the order
\* of `queries`, before anything that was on the stack already; every query
\* is popped at most as often as it was added, the stack holds the ones not
\* yet popped, and `empty` answers True exactly when all added were popped.
C16_DepthFirst ==
    self.cls = "StackScheduler" =>
        /\ \A i \in 1..Len(history) :
              Returns(i, "add_all") =>
                  LET queries == history[i].args[1].seq IN
                  /\ \A k \in 1..Len(queries) :
                        PopsFollow(i, k) => history[i + k].outcome = Return(queries[k])
                  /\ ( /\ Returns(i - 1, "add")
                       /\ PopsFollow(i, Len(queries) + 1) )
                     => history[i + Len(queries) + 1].outcome = Return(history[i - 1].args[1])
        /\ \A q \in Queries :
              /\ \A n \in 0..Len(history) : Popped(n, q) <= Added(n, q)
              /\ Occurrences(stack(self), q) = Added(Len(history), q) - Popped(Len(history), q)
        /\ \A i \in 1..Len(history) :
              history[i].op = "empty" =>
                  history[i].outcome =
                      Return(PyBoolean(\A q \in Queries : Added(i, q) = Popped(i, q)))

\* a query is added, then a batch of two different ones, and three pops
\* follow; between them `empty` is never the case
C16_Witness ==
    /\ self.cls = "StackScheduler"
    /\ Len(history) = 5
    /\ Returns(1, "add")
    /\ Returns(2, "add_all")
    /\ Len(history[2].args[1].seq) = 2
    /\ history[2].args[1].seq[1] # history[2].args[1].seq[2]
    /\ PopsFollow(2, 3)
    /\ Returned(history[5].outcome)
    /\ stack(self) = <<>>

----------------------------------------------------------------------------
(* Form: the name/value pairs of an HTML form *)

FORM == <<"f", "o", "r", "m">>
INPUT == <<"i", "n", "p", "u", "t">>
SELECT == <<"s", "e", "l", "e", "c", "t">>
OPTION == <<"o", "p", "t", "i", "o", "n">>

\* the attribute names and the literals forms.py uses
S_name == PyStr(<<"n", "a", "m", "e">>)
S_type == PyStr(<<"t", "y", "p", "e">>)
S_value == PyStr(<<"v", "a", "l", "u", "e">>)
S_checked == PyStr(<<"c", "h", "e", "c", "k", "e", "d">>)
S_selected == PyStr(<<"s", "e", "l", "e", "c", "t", "e", "d">>)
S_on == PyStr(<<"o", "n">>)
S_text == PyStr(<<"t", "e", "x", "t">>)
S_radio == PyStr(<<"r", "a", "d", "i", "o">>)
S_checkbox == PyStr(<<"c", "h", "e", "c", "k", "b", "o", "x">>)
S_submit == PyStr(<<"s", "u", "b", "m", "i", "t">>)
S_image == PyStr(<<"i", "m", "a", "g", "e">>)
S_button == PyStr(<<"b", "u", "t", "t", "o", "n">>)
S_select == PyStr(SELECT)
S_empty == PyStr(<<>>)

\* Form.CLICK
CLICK == Obj("object", <<"C", "L", "I", "C", "K">>, <<>>)

\* Form.__init__
Form(husker) == Obj("Form", <<>>, <<husker>>)

\* Husker.str, and NullHusker.str
Husker_str(h) == IF h.cls = "NullHusker" THEN None ELSE value(h)

\* x or y
or(x, y) == IF bool(x) THEN x ELSE y

\* str.lower on the letters of the model
UpperCase == <<"A", "B", "C", "D", "E", "H", "I", "K", "O", "R", "T", "X">>
LowerCase == <<"a", "b", "c", "d", "e", "h", "i", "k", "o", "r", "t", "x">>

lower_char(c) ==
    IF \E i \in 1..Len(UpperCase) : UpperCase[i] = c
    THEN LowerCase[CHOOSE i \in 1..Len(UpperCase) : UpperCase[i] = c]
    ELSE c

lower(s) == PyStr([i \in 1..Len(s.str) |-> lower_char(s.str[i])])

\* element.iter(): the element and its descendants, in document order
Element_iter(node) == <<node>> \o descendants(node)

\* Form._iter_input_nodes: the type an input node is parsed as
input_type_of(node) ==
    IF node.str = SELECT THEN S_select
    ELSE lower(or(Husker_str(ElementHusker_attrib(ElementHusker(node, FALSE), S_type,
                                                  NULL_HUSKER).val),
                  S_text))

\* Form._iter_input_nodes, over the nodes of iter()
RECURSIVE iter_input_nodes(_)
iter_input_nodes(nodes) ==
    IF nodes = <<>> THEN <<>>
    ELSE IF Head(nodes).str \in {INPUT, SELECT}
    THEN <<Head(nodes)>> \o iter_input_nodes(Tail(nodes))
    ELSE iter_input_nodes(Tail(nodes))

\* str(value) on what ElementHusker.attrib returns with a default
str_of(v) == IF IsHusker(v) THEN Husker_str(v) ELSE v

\* _parse_node_value, the local attrib(key, default)
parse_attrib(node, key, default) ==
    str_of(ElementHusker_attrib(ElementHusker(node, FALSE), key, default).val)

\* whether a radio button or a checkbox counts as checked
is_checked(node) == bool(parse_attrib(node, S_checked, None))

\* node.any_of('.//option[@selected]', './/option') on a select
RECURSIVE with_attrib(_, _)
with_attrib(nodes, key) ==
    IF nodes = <<>> THEN <<>>
    ELSE IF dict_get(E_attrib(Head(nodes)), key.str, unspecified) # unspecified
    THEN <<Head(nodes)>> \o with_attrib(Tail(nodes), key)
    ELSE with_attrib(Tail(nodes), key)

first_option(selected, options) ==
    IF selected # <<>> THEN ElementHusker(Head(selected), FALSE)
    ELSE IF options # <<>> THEN ElementHusker(Head(options), FALSE)
    ELSE NULL_HUSKER

select_option(node) ==
    first_option(with_attrib(named(descendants(node), OPTION), S_selected),
                 named(descendants(node), OPTION))

\* the value of the option of a select
option_value(option) ==
    IF bool(option)
    THEN or(Husker_str(ElementHusker_attrib(option, S_value, NULL_HUSKER).val), S_empty)
    ELSE None

\* Form._parse_node_value
parse_node_value(node, input_type, is_click) ==
    IF input_type \in {S_radio, S_checkbox}
    THEN IF is_checked(node) THEN parse_attrib(node, S_value, S_on) ELSE None
    ELSE IF input_type \in {S_submit, S_image}
    THEN IF is_click THEN or(parse_attrib(node, S_value, None), S_empty) ELSE None
    ELSE IF input_type = S_select THEN option_value(select_option(node))
    ELSE IF input_type = S_button THEN None
    ELSE or(parse_attrib(node, S_value, None), S_empty)

\* d[k] = v on a dict: the key keeps its place
RECURSIVE dict_set(_, _, _)
dict_set(items, k, v) ==
    IF items = <<>> THEN <<Item(k, v)>>
    ELSE IF Head(items).str = k THEN <<Item(k, v)>> \o Tail(items)
    ELSE <<Head(items)>> \o dict_set(Tail(items), k, v)

\* dict(pairs)
RECURSIVE dict_of_pairs(_, _)
dict_of_pairs(pairs, items) ==
    IF pairs = <<>> THEN items
    ELSE dict_of_pairs(Tail(pairs), dict_set(items, Head(pairs).seq[1].str, Head(pairs).seq[2]))

\* dict(override)
dict_of(override) ==
    IF override.cls = "dict" THEN override ELSE PyDict(dict_of_pairs(override.seq, <<>>))

\* override.items(), or tuple(override): the pairs of the override
RECURSIVE items_of(_)
items_of(items) ==
    IF items = <<>> THEN <<>>
    ELSE <<PyTuple(<<PyStr(Head(items).str), Head(items).seq[1]>>)>> \o items_of(Tail(items))

override_seq(override) ==
    IF override.cls = "dict" THEN items_of(override.seq) ELSE override.seq

\* k in d
dict_has(d, k) == \E i \in 1..Len(d.seq) : d.seq[i].str = k

\* d.pop(k, None): the dict afterwards
RECURSIVE without_key(_, _)
without_key(items, k) ==
    IF items = <<>> THEN <<>>
    ELSE IF Head(items).str = k THEN Tail(items)
    ELSE <<Head(items)>> \o without_key(Tail(items), k)

\* a pop that takes nothing out
dict_pop_kept(d, k) == d

\* d.pop(k, None): the dict afterwards
dict_pop(d, k) == PyDict(without_key(d.seq, k))

\* Form.fields, one node of the first loop: the value the node is submitted with
field_value(node, override_dict, input_name) ==
    IF dict_has(override_dict, input_name.str)
       /\ dict_get(override_dict, input_name.str, None) # CLICK
    THEN dict_get(override_dict, input_name.str, None)
    ELSE parse_node_value(node, input_type_of(node),
                          dict_has(override_dict, input_name.str))

\* the name of an input node
input_name_of(node) ==
    Husker_str(ElementHusker_attrib(ElementHusker(node, FALSE), S_name, NULL_HUSKER).val)

\* the generator object a call of fields returns
GENERATOR == Obj("generator", <<"f", "i", "e", "l", "d", "s">>, <<>>)

\* the frame of a generator of fields: where it is suspended (created: not
\* started; nodes: at the yield of the first loop; overrides: at the yield of
\* the second; finished), the override object of the caller, the locals
\* override_seq (None for the view of a dict, which is read through the dict)
\* and override_dict, the number of input nodes the first loop has taken, the
\* number of pairs the second loop has taken, and the size of the dict when
\* the second loop began
Frame(pc, override, seq, dict, i, j, used) ==
    [pc |-> pc, override |-> override, override_seq |-> seq, override_dict |-> dict,
     i |-> i, j |-> j, used |-> used]

\* a generator as the caller holds it: the call that made it, and its frame
Generator(override, frame) ==
    [op |-> "fields", args |-> <<override>>, outcome |-> Return(GENERATOR), frame |-> frame]

\* what a next() gives, and the frame it leaves
Stepped(out, frame) == [outcome |-> out, frame |-> frame]

\* the generator has returned or raised
finished(frame) == [frame EXCEPT !.pc = "finished"]

\* the pairs override_seq has now: the view of a dict shows the dict as it is
seq_items(frame) ==
    IF frame.override.cls = "dict" THEN override_seq(frame.override)
    ELSE frame.override_seq.seq

RECURSIVE overrides_resumed(_, _)
\* Form.fields, the second loop from where it is: the next override still in
\* override_dict is yielded; a dict that has changed size stops the iteration
overrides_resumed(frame, pairs) ==
    IF frame.override.cls = "dict" /\ Len(frame.override.seq) # frame.used
    THEN Stepped(Raise("RuntimeError"), finished(frame))
    ELSE IF frame.j >= Len(pairs) THEN Stepped(Raise("StopIteration"), finished(frame))
    ELSE IF dict_has(frame.override_dict, pairs[frame.j + 1].seq[1].str)
    THEN Stepped(Return(pairs[frame.j + 1]),
                 [frame EXCEPT !.pc = "overrides", !.j = frame.j + 1])
    ELSE overrides_resumed([frame EXCEPT !.j = frame.j + 1], pairs)

\* for name, value in override_seq: the iteration begins
overrides_begun(frame) ==
    overrides_resumed([frame EXCEPT !.j = 0, !.used = Len(frame.override.seq)],
                      seq_items(frame))

RECURSIVE nodes_resumed(_, _)

\* if input_value is not None: yield input_name, input_value
node_valued(frame, nodes, input_name, input_value) ==
    IF input_value = None THEN nodes_resumed(frame, nodes)
    ELSE Stepped(Return(PyTuple(<<input_name, input_value>>)), [frame EXCEPT !.pc = "nodes"])

\* one node of the first loop: its value, and override_dict popped
node_visited(frame, nodes, node) ==
    IF ~bool(input_name_of(node)) THEN nodes_resumed(frame, nodes)
    ELSE node_valued([frame EXCEPT !.override_dict = dict_pop(@, input_name_of(node).str)],
                     nodes, input_name_of(node),
                     field_value(node, frame.override_dict, input_name_of(node)))

\* Form.fields, the first loop from where it is, over the input nodes the
\* tree has now
nodes_resumed(frame, nodes) ==
    IF frame.i >= Len(nodes) THEN overrides_begun(frame)
    ELSE node_visited([frame EXCEPT !.i = frame.i + 1], nodes, nodes[frame.i + 1])

\* Form.fields from its first line: override_seq and override_dict are made of
\* the override as it is when the generator is first read
fields_started(frame, nodes) ==
    IF frame.override.cls \notin {"dict", "list", "tuple"}
    THEN Stepped(Raise("TypeError"), finished(frame))
    ELSE nodes_resumed(
             [frame EXCEPT !.override_seq = IF frame.override.cls = "dict" THEN None
                                            ELSE PyTuple(frame.override.seq),
                           !.override_dict = dict_of(frame.override)],
             nodes)

\* next(g) for a generator of form.fields
generator_next(form, frame) ==
    CASE frame.pc = "created" ->
            fields_started(frame, iter_input_nodes(Element_iter(value(value(form)))))
      [] frame.pc = "nodes" ->
            nodes_resumed(frame, iter_input_nodes(Element_iter(value(value(form)))))
      [] frame.pc = "overrides" -> overrides_resumed(frame, seq_items(frame))
      [] frame.pc = "finished" -> Stepped(Raise("StopIteration"), frame)

\* Form.fields: a generator function; the call runs nothing of its body
Form_fields(form, override) ==
    Generator(override, Frame("created", override, None, None, 0, 0, 0))

\* element.set(key, v) on an element
Element_set(e, key, v) ==
    Obj(e.cls, e.str, <<PyDict(dict_set(E_attrib(e).seq, key.str, v)), E_text(e), E_tail(e), e.seq[4]>>)

\* the form with the attribute set on the child at position c of its <form>
form_with(form, c, key, v) ==
    Obj("Form", <<>>,
        <<ElementHusker(
            Obj("_Element", value(value(form)).str,
                <<E_attrib(value(value(form))), E_text(value(value(form))),
                  E_tail(value(value(form))),
                  PyList([k \in 1..Len(E_children(value(value(form)))) |->
                            IF k = c THEN Element_set(E_children(value(value(form)))[k], key, v)
                            ELSE E_children(value(value(form)))[k]])>>),
            FALSE)>>)

\* override[k] = v on a dict, override.append((k, v)) on a list
override_with(override, k, v) ==
    IF override.cls = "dict" THEN PyDict(dict_set(override.seq, k.str, v))
    ELSE PyList(Append(override.seq, PyTuple(<<k, v>>)))

----------------------------------------------------------------------------
(* Form: the forms and overrides of the model, and the calls *)

\* <input> and <select> elements: attrib, and the options of a select
Input(attrib) == Element(INPUT, attrib, None, None, <<>>)

Option(attrib) == Element(OPTION, attrib, None, None, <<>>)

At(k, v) == Item(k.str, v)

S_a == PyStr(<<"a">>)
S_b == PyStr(<<"b">>)
S_c == PyStr(<<"c">>)
S_1 == PyStr(<<"1">>)
S_2 == PyStr(<<"2">>)
S_x == PyStr(<<"x">>)
S_yes == PyStr(<<"y", "e", "s">>)

FormNodes ==
    { Input(<<At(S_name, S_a), At(S_value, S_1)>>),
      Input(<<At(S_name, S_a), At(S_value, S_2)>>),
      Input(<<At(S_name, S_b)>>),
      Input(<<At(S_value, S_1)>>),
      Input(<<At(S_name, S_a), At(S_type, S_checkbox), At(S_checked, S_empty)>>),
      Input(<<At(S_name, S_a), At(S_type, S_checkbox), At(S_checked, S_yes)>>),
      Input(<<At(S_name, S_b), At(S_type, S_checkbox), At(S_value, S_1)>>),
      Input(<<At(S_name, S_b), At(S_type, PyStr(<<"R", "A", "D", "I", "O">>)),
              At(S_value, S_2), At(S_checked, S_yes)>>),
      Input(<<At(S_name, S_b), At(S_type, S_radio), At(S_value, S_empty),
              At(S_checked, S_checked)>>),
      Input(<<At(S_name, S_b), At(S_type, S_submit), At(S_value, S_1)>>),
      Input(<<At(S_name, S_a), At(S_type, S_image)>>),
      Input(<<At(S_name, S_a), At(S_type, S_button), At(S_value, S_1)>>),
      Element(SELECT, <<At(S_name, S_a)>>, None, None,
              <<Option(<<At(S_value, S_1)>>),
                Option(<<At(S_value, S_2), At(S_selected, S_empty)>>)>>),
      Element(SELECT, <<At(S_name, S_b)>>, None, None, <<Option(<<>>)>>),
      Element(SELECT, <<At(S_name, S_b)>>, None, None, <<>>),
      Element(DIV, <<At(S_name, S_a)>>, None, None,
              <<Input(<<At(S_name, S_b), At(S_value, S_2)>>)>>) }

\* the most pairs an override has once the caller has added to it
MaxOverride == 4

\* a <form> with two nodes in it
Forms == { Element(FORM, <<>>, None, None, <<m, n>>) : m \in FormNodes, n \in FormNodes }

Pair(k, v) == PyTuple(<<k, v>>)

\* what a caller passes as override: a dict, or a sequence of pairs
Overrides ==
    { PyDict(<<>>),
      PyDict(<<At(S_a, S_x)>>),
      PyDict(<<At(S_a, None)>>),
      PyDict(<<At(S_b, CLICK)>>),
      PyDict(<<At(S_c, S_x), At(S_a, S_1)>>),
      PyDict(<<At(S_c, None)>>),
      PyList(<<Pair(S_c, S_x), Pair(S_b, S_1), Pair(S_x, S_2)>>),
      PyTuple(<<Pair(S_x, S_2), Pair(S_c, S_1), Pair(S_c, S_2)>>),
      PyList(<<Pair(S_a, S_1), Pair(S_a, S_2)>>) }

\* g = form.fields(override): nothing is read yet; history holds the generator,
\* evaluated the pairs it has yielded
CallFields ==
    \E override \in Overrides \cup {PyInt(<<"5">>)} :
        /\ outcome = NoCall
        /\ history = <<>>
        /\ self.cls = "Form"
        /\ call' = [op |-> "fields", args |-> <<override>>]
        /\ outcome' = Return(GENERATOR)
        /\ history' = <<Form_fields(self, override)>>
        /\ evaluated' = <<>>
        /\ UNCHANGED self

\* next(g): the body runs up to its next yield
CallNext ==
    /\ self.cls = "Form"
    /\ history # <<>>
    /\ call' = [op |-> "__next__", args |-> <<>>]
    /\ outcome' = generator_next(self, history[1].frame).outcome
    /\ history' = <<[history[1] EXCEPT !.frame = generator_next(self, @).frame]>>
    /\ evaluated' = IF Returned(generator_next(self, history[1].frame).outcome)
                    THEN Append(evaluated, generator_next(self, history[1].frame).outcome.val)
                    ELSE evaluated
    /\ UNCHANGED self

\* between two reads the caller sets the value attribute of a child of the form
CallerSetsValue ==
    /\ self.cls = "Form"
    /\ history # <<>> /\ history[1].frame.pc # "finished"
    /\ \E c \in 1..Len(E_children(value(value(self)))) :
        /\ dict_get(E_attrib(E_children(value(value(self)))[c]), S_value.str, None) # S_x
        /\ self' = form_with(self, c, S_value, S_x)
    /\ call' = [op |-> "set", args |-> <<S_value, S_x>>]
    /\ outcome' = Return(None)
    /\ UNCHANGED <<history, evaluated>>

\* between two reads the caller changes the override it passed
CallerSetsOverride ==
    /\ self.cls = "Form"
    /\ history # <<>> /\ history[1].frame.pc # "finished"
    /\ history[1].frame.override.cls \in {"dict", "list"}
    /\ override_with(history[1].frame.override, S_a, S_2) # history[1].frame.override
    /\ Len(history[1].frame.override.seq) < MaxOverride
    /\ history' = <<[history[1] EXCEPT
                        !.frame.override = override_with(@, S_a, S_2)]>>
    /\ call' = [op |-> "override", args |-> <<S_a, S_2>>]
    /\ outcome' = Return(None)
    /\ UNCHANGED <<self, evaluated>>

\* form._parse_node_value(node, input_type, is_click) on a node of the form
CallParseNodeValue ==
    \E i \in 1..Len(iter_input_nodes(Element_iter(value(value(self))))), is_click \in BOOLEAN :
        /\ outcome = NoCall
        /\ history = <<>>
        /\ self.cls = "Form"
        /\ call' = [op |-> "_parse_node_value",
                    args |-> <<iter_input_nodes(Element_iter(value(value(self))))[i],
                               input_type_of(iter_input_nodes(Element_iter(value(value(self))))[i]),
                               PyBoolean(is_click)>>]
        /\ outcome' = Return(parse_node_value(
                                 iter_input_nodes(Element_iter(value(value(self))))[i],
                                 input_type_of(iter_input_nodes(Element_iter(value(value(self))))[i]),
                                 is_click))
        /\ UNCHANGED history
        /\ evaluated' = <<>>
        /\ UNCHANGED self

FormInit ==
    /\ self \in { Form(ElementHusker(f, FALSE)) : f \in Forms }
    /\ call = [op |-> "__init__", args |-> <<>>]
    /\ outcome = NoCall
    /\ evaluated = <<>>
    /\ history = <<>>

FormNext ==
    \/ CallFields \/ CallNext \/ CallerSetsValue \/ CallerSetsOverride
    \/ CallParseNodeValue

FormSpec == FormInit /\ [][FormNext]_vars

----------------------------------------------------------------------------
(* Form.fields: order, overrides, and what is checked *)

\* fields was given a dict or a sequence of pairs, its generator has been read
\* to its end, and the caller has left the override as it passed it
FieldsCalled ==
    /\ self.cls = "Form" /\ history # <<>>
    /\ history[1].args[1].cls \in {"dict", "list", "tuple"}
    /\ call.op = "__next__" /\ outcome = Raise("StopIteration")
    /\ history[1].frame.override = history[1].args[1]

\* the override the call was given, and the fields the generator yielded
Override == history[1].args[1]
Yielded == evaluated
OverridePairs == override_seq(Override)

\* the names of the named input nodes of the form, in document order
RECURSIVE names_of(_)
names_of(nodes) ==
    IF nodes = <<>> THEN <<>>
    ELSE IF bool(input_name_of(Head(nodes)))
    THEN <<input_name_of(Head(nodes))>> \o names_of(Tail(nodes))
    ELSE names_of(Tail(nodes))

TreeNames == names_of(iter_input_nodes(Element_iter(value(value(self)))))

InTree(name) == \E i \in 1..Len(TreeNames) : TreeNames[i] = name

\* the overrides whose name is the name of no field of the tree
RECURSIVE Unmatched(_)
Unmatched(pairs) ==
    IF pairs = <<>> THEN <<>>
    ELSE IF InTree(Head(pairs).seq[1]) THEN Unmatched(Tail(pairs))
    ELSE <<Head(pairs)>> \o Unmatched(Tail(pairs))

\* xs can be had from ys by leaving elements out
RECURSIVE IsSubsequence(_, _)
IsSubsequence(xs, ys) ==
    IF xs = <<>> THEN TRUE
    ELSE IF ys = <<>> THEN FALSE
    ELSE IF Head(xs) = Head(ys) THEN IsSubsequence(Tail(xs), Tail(ys))
    ELSE IsSubsequence(xs, Tail(ys))

FirstOfPairs(pairs) == [i \in 1..Len(pairs) |-> pairs[i].seq[1]]

\* the number of fields of the tree
TreePart == Len(Yielded) - Len(Unmatched(OverridePairs))

\* C17: fields yields fields of the tree, in the order of the tree, and then
\* the overrides that name no field of the tree, each once and in the order
\* of the override.
C17_FieldsOrder ==
    FieldsCalled =>
        /\ TreePart >= 0
        /\ SubSeq(Yielded, TreePart + 1, Len(Yielded)) = Unmatched(OverridePairs)
        /\ IsSubsequence(FirstOfPairs(SubSeq(Yielded, 1, TreePart)), TreeNames)

\* fields of the tree are followed by an override, while another override
\* named a field of the tree
C17_Witness ==
    /\ FieldsCalled
    /\ TreePart >= 1
    /\ Len(Unmatched(OverridePairs)) >= 1
    /\ Len(Unmatched(OverridePairs)) < Len(OverridePairs)
    /\ C17_FieldsOrder

\* how many fields of the tree have this name, and how many yielded pairs
RECURSIVE CountOf(_, _)
CountOf(xs, x) ==
    IF xs = <<>> THEN 0 ELSE (IF Head(xs) = x THEN 1 ELSE 0) + CountOf(Tail(xs), x)

\* C18: when a name of the override (with a value other than CLICK) names
\* fields of the tree, every pair yielded under that name carries the
\* override's value, none is yielded when that value is None, and there are
\* no more such pairs than fields of that name (nothing is appended).
C18_OverrideReplaces ==
    FieldsCalled =>
        \A i \in 1..Len(dict_of(Override).seq) :
            LET name == PyStr(dict_of(Override).seq[i].str)
                v == dict_of(Override).seq[i].seq[1]
            IN  (v # CLICK /\ InTree(name)) =>
                    /\ \A j \in 1..Len(Yielded) :
                          Yielded[j].seq[1] = name => (v # None /\ Yielded[j].seq[2] = v)
                    /\ v # None => \E j \in 1..Len(Yielded) : Yielded[j] = Pair(name, v)
                    /\ CountOf(FirstOfPairs(Yielded), name) <= CountOf(TreeNames, name)

ParseCalled == self.cls = "Form" /\ call.op = "_parse_node_value" /\ Returned(outcome)

HasAttribute(node, key) == dict_get(E_attrib(node), key.str, unspecified) # unspecified

\* C19: a radio button or checkbox has a value exactly when it has a `checked`
\* attribute: its `value` attribute, or "on" when it has none.
C19_CheckedRule ==
    (ParseCalled /\ call.args[2] \in {S_radio, S_checkbox}) =>
        outcome.val =
            IF ~HasAttribute(call.args[1], S_checked) THEN None
            ELSE IF HasAttribute(call.args[1], S_value)
            THEN value(attrib_text(dict_get(E_attrib(call.args[1]), S_value.str, None)))
            ELSE S_on

-----------------------------------------------------------------------------
(* Object identity, == and hash()                                           *)
(*                                                                          *)
(* Husker forwards __eq__ and __hash__ to the wrapped value; what x == y    *)
(* gives is then decided by the interpreter's comparison protocol, which    *)
(* falls back on the identity of the two objects.  A node is therefore      *)
(* held at an address: the address lives in the field of the node record    *)
(* that Husker.__init__ leaves empty.                                       *)

\* the node h as the object at address id
Located(h, id) == Obj(h.cls, id, h.seq)

\* x is y
is(x, y) == x = y

\* the singleton NotImplemented
NotImplemented == Obj("NotImplementedType", <<>>, <<>>)

\* hash(v) of a hashable builtin value: the same for equal values
hash_of(v) == Obj("int", <<"hash">>, <<v>>)

\* type(v).__eq__(v, other) of the builtin classes the nodes wrap here:
\* str, NoneType (object.__eq__) and list against what is not a list
builtin_eq(v, other) ==
    CASE v.cls = "str" ->
            IF other.cls = "str" THEN PyBoolean(v.str = other.str) ELSE NotImplemented
      [] v.cls = "NoneType" ->
            IF is(v, other) THEN PyBoolean(TRUE) ELSE NotImplemented
      [] v.cls = "list" /\ other.cls # "list" -> NotImplemented

\* _forward_to_value: NotImplemented is passed on, anything else goes through
\* the return type, here bool
forwarded(raw) == IF raw = NotImplemented THEN NotImplemented ELSE PyBoolean(bool(raw))

\* Husker.__eq__ = _forward_to_value('__eq__', bool)
Husker_eq(h, other) == forwarded(builtin_eq(value(h), other))

\* NullHusker.__eq__ = lambda self, other: other is None
NullHusker_eq(h, other) == PyBoolean(is(other, None))

\* type(x).__eq__(x, other)
dunder_eq(x, other) ==
    IF x.cls = "NullHusker" THEN NullHusker_eq(x, other)
    ELSE IF IsHusker(x) THEN Husker_eq(x, other)
    ELSE builtin_eq(x, other)

\* the last two steps of x == y: the reflected call, then identity
reflected_eq(x, y, reflected) ==
    IF reflected # NotImplemented THEN reflected ELSE PyBoolean(is(x, y))

\* x == y once x.__eq__(y) has answered (no class here is a subclass of the
\* other's, so the left operand is asked first)
compared(x, y, answer) ==
    IF answer # NotImplemented THEN answer ELSE reflected_eq(x, y, dunder_eq(y, x))

\* x == y
py_eq(x, y) == compared(x, y, dunder_eq(x, y))

\* Husker.__hash__ = _forward_to_value('__hash__', int): the wrapped value's
\* __hash__ is None, hence not callable, for a list or a dict
Husker_hash(h) ==
    IF value(h).cls \in {"list", "dict"} THEN Raise("NotImplementedError")
    ELSE Return(hash_of(value(h)))

\* hash(x): NullHusker defines __eq__ and no __hash__, which leaves its
\* __hash__ None
py_hash(x) ==
    IF x.cls = "NullHusker" THEN Raise("TypeError")
    ELSE IF IsHusker(x) THEN Husker_hash(x)
    ELSE IF x.cls \in {"list", "dict"} THEN Raise("TypeError")
    ELSE Return(hash_of(x))

\* keyed in seen, for a hashable keyed: an entry with the same hash that is
\* keyed or equals it
set_contains(seen, keyed) ==
    \E i \in 1..Len(seen) :
        /\ py_hash(seen[i]) = py_hash(keyed)
        /\ (is(seen[i], keyed) \/ bool(py_eq(seen[i], keyed)))

\* operator.attrgetter('str'), a key function
KEY_STR == Obj("attrgetter", <<"s", "t", "r">>, <<>>)

\* ListHusker.str = _mapped_property('str', cls=list)
ListHusker_str(h) == PyList([i \in 1..Len(value(h).seq) |-> attr_str(value(h).seq[i]).val])

\* keyed = child if key is None else key(child)
dedup_key(child, key) ==
    IF key = None THEN Return(child)
    ELSE IF child.cls = "ListHusker" THEN Return(ListHusker_str(child))
    ELSE attr_str(child)

RECURSIVE dedup_loop(_, _, _, _, _)

\* if keyed not in seen: seen.add(keyed); deduped.append(child)
dedup_hashed(children, key, i, seen, deduped, keyed, hashed) ==
    IF ~Returned(hashed) THEN hashed
    ELSE IF set_contains(seen, keyed)
    THEN dedup_loop(children, key, i + 1, seen, deduped)
    ELSE dedup_loop(children, key, i + 1, Append(seen, keyed), Append(deduped, children[i]))

dedup_keyed(children, key, i, seen, deduped, keyed) ==
    IF ~Returned(keyed) THEN keyed
    ELSE dedup_hashed(children, key, i, seen, deduped, keyed.val, py_hash(keyed.val))

\* for child in self._value: ...; return ListHusker(deduped)
dedup_loop(children, key, i, seen, deduped) ==
    IF i > Len(children) THEN Return(ListHusker(PyList(deduped)))
    ELSE dedup_keyed(children, key, i, seen, deduped, dedup_key(children[i], key))

\* ListHusker.dedup
ListHusker_dedup(h, key) == dedup_loop(value(h).seq, key, 1, <<>>, <<>>)

\* the nodes at hand: two Text nodes of one string, a third of another
\* string, one of the empty string, and a Sequence
TextA1 == Located(TextHusker(PyStr(<<"a">>)), <<"1">>)
TextA2 == Located(TextHusker(PyStr(<<"a">>)), <<"2">>)
TextB3 == Located(TextHusker(PyStr(<<"b">>)), <<"3">>)
TextE4 == Located(TextHusker(PyStr(<<>>)), <<"4">>)
ListA5 == Located(ListHusker(PyList(<<TextA1>>)), <<"5">>)

MaxChildren == 3

ChildNodes == {TextA1, TextA2, TextB3, NULL_HUSKER, ListA5}

LocatedLists ==
    { Located(ListHusker(PyList(children)), <<"0">>) :
        children \in UNION { [1..n -> ChildNodes] : n \in 0..MaxChildren } }

LocatedNodes == {TextA1, TextA2, TextB3, TextE4, NULL_HUSKER} \cup LocatedLists

\* what a node is compared with
Others ==
    {TextA1, TextA2, TextB3, TextE4, NULL_HUSKER, ListA5, None,
     PyStr(<<>>), PyStr(<<"a">>), PyStr(<<"b">>)}

ObjectInit ==
    /\ self \in LocatedNodes
    /\ call = [op |-> "husk", args |-> <<>>]
    /\ outcome = NoCall
    /\ evaluated = <<>>
    /\ history = <<>>

\* self == other
CallEq ==
    /\ outcome = NoCall
    /\ \E other \in Others :
        /\ call' = [op |-> "__eq__", args |-> <<other>>]
        /\ outcome' = Return(py_eq(self, other))
    /\ UNCHANGED history
    /\ evaluated' = <<>>
    /\ UNCHANGED self

\* other == self, for a raw string on the left
CallReflectedEq ==
    /\ outcome = NoCall
    /\ \E other \in {o \in Others : o.cls = "str"} :
        /\ call' = [op |-> "__req__", args |-> <<other>>]
        /\ outcome' = Return(py_eq(other, self))
    /\ UNCHANGED history
    /\ evaluated' = <<>>
    /\ UNCHANGED self

\* hash(self)
CallHash ==
    /\ outcome = NoCall
    /\ call' = [op |-> "__hash__", args |-> <<>>]
    /\ outcome' = py_hash(self)
    /\ UNCHANGED history
    /\ evaluated' = <<>>
    /\ UNCHANGED self

\* self.dedup(key)
CallDedup ==
    /\ outcome = NoCall
    /\ self.cls = "ListHusker"
    /\ \E key \in {None, KEY_STR} :
        /\ call' = [op |-> "dedup", args |-> <<key>>]
        /\ outcome' = ListHusker_dedup(self, key)
    /\ UNCHANGED history
    /\ evaluated' = <<>>
    /\ UNCHANGED self

ObjectNext == CallEq \/ CallReflectedEq \/ CallHash \/ CallDedup \/ Chain \/ Discard

ObjectSpec == ObjectInit /\ [][ObjectNext]_vars

-----------------------------------------------------------------------------
(* Text nodes: equality and hashing *)

EqCalled == call.op \in {"__eq__", "__req__"} /\ self.cls = "TextHusker" /\ outcome # NoCall

\* C29: two Text nodes compare equal exactly when their strings are equal, and
\* then their hashes are equal; a Text node and a raw string compare equal, in
\* either order, exactly when the string is the node's value
C29_EqualityByValue ==
    EqCalled =>
        /\ call.args[1].cls = "TextHusker" =>
            /\ outcome = Return(PyBoolean(value(self) = value(call.args[1])))
            /\ value(self) = value(call.args[1]) => py_hash(self) = py_hash(call.args[1])
        /\ call.args[1].cls = "str" =>
            outcome = Return(PyBoolean(value(self) = call.args[1]))

-----------------------------------------------------------------------------
(* Sequences: dedup *)

DedupCalled == call.op = "dedup" /\ self.cls = "ListHusker" /\ outcome # NoCall

\* two children stand for the same key: the same object when there is no key
\* function, equal keys otherwise
SameKey(c, d, key) == dedup_key(c, key) = dedup_key(d, key)

\* the positions of the children that are the first of their key
Firsts(children, key) ==
    { i \in 1..Len(children) :
        \A j \in 1..(i - 1) : ~SameKey(children[j], children[i], key) }

RECURSIVE At_positions(_, _, _)
\* the children at the positions of S from i on, in order
At_positions(children, S, i) ==
    IF i > Len(children) THEN <<>>
    ELSE (IF i \in S THEN <<children[i]>> ELSE <<>>) \o At_positions(children, S, i + 1)

\* C25: dedup returns the Sequence of the first child of each key in the
\* original order; no two children of the result share a key, every key of
\* the input is found in the result, and dedup of the result gives the result
C25_FirstPerKey ==
    DedupCalled =>
        LET children == value(self).seq
            key == call.args[1]
        IN  /\ Returned(outcome)
            /\ outcome.val.cls = "ListHusker"
            /\ LET kept == value(outcome.val).seq
               IN  /\ kept = At_positions(children, Firsts(children, key), 1)
                   /\ \A i, j \in 1..Len(kept) : i # j => ~SameKey(kept[i], kept[j], key)
                   /\ \A i \in 1..Len(children) :
                        \E j \in 1..Len(kept) : SameKey(children[i], kept[j], key)
                   /\ ListHusker_dedup(outcome.val, key) = outcome

-----------------------------------------------------------------------------
(* What a node wraps *)

RECURSIVE WrapsValue(_)
\* x, if a node other than the Null node, wraps a value other than None, and
\* so do the children of a Sequence
WrapsValue(x) ==
    IF ~IsHusker(x) \/ x.cls = "NullHusker" THEN TRUE
    ELSE /\ value(x) # None
         /\ x.cls = "ListHusker" =>
                \A i \in 1..Len(value(x).seq) : WrapsValue(value(x).seq[i])

\* C28: no node other than the Null node wraps None, be it the node at hand,
\* the node an operation returns, or a child of either
C28_NonNullValue == WrapsValue(self) /\ (Returned(outcome) => WrapsValue(outcome.val))

-----------------------------------------------------------------------------
(* The crawler.  Scraper.scrape belongs to the subclass that does the       *)
(* scraping: here it records the query, and raises SkipThisPage for the     *)
(* queries the crawler is set up to skip.                                   *)

MaxHeld == 4

\* a Crawler: the queries its scrape skips, and self.scheduler
Crawler(skips, scheduler) == Obj("Crawler", skips, <<scheduler>>)

\* self.scheduler
scheduler_of(c) == c.seq[1]

\* Crawler.__init__: self.scheduler = scheduler or StackScheduler(); a
\* scheduler of length 0 is falsy
Crawler_init(skips, scheduler) ==
    Crawler(skips,
            IF scheduler = None \/ StackScheduler_len(scheduler) = 0
            THEN StackScheduler(<<>>)
            ELSE scheduler)

\* the names bound at the top of crawler.py
crawler_globals ==
    { "absolute_import", "division", "print_function", "unicode_literals", "requests",
      "SkipThisPage", "TextHusker", "Scraper", "Scheduler", "StackScheduler", "Crawler" }

\* a bare name in a method body is looked up among the locals of the method,
\* then in the module (no builtin is named scheduler or logging)
name_bound(name, locals) == name \in locals \cup crawler_globals

\* what crawl leaves: its outcome, the crawler, and the queries scrape was given
Crawled(out, c, scraped) == [outcome |-> out, crawler |-> c, scraped |-> scraped]

\* Crawler.log_skipped_page: logging.info(...)
Crawler_log_skipped_page(query) ==
    IF name_bound("logging", {"self", "query", "reason"}) THEN Return(None)
    ELSE Raise("NameError")

RECURSIVE crawl_loop(_, _)

\* except SkipThisPage as reason: self.log_skipped_page(query, reason)
crawl_logged(c, scraped, logged) ==
    IF Returned(logged) THEN crawl_loop(c, scraped) ELSE Crawled(logged, c, scraped)

\* try: self.scrape(query)
crawl_scrape(c, query, scraped) ==
    IF \E i \in 1..Len(c.str) : c.str[i] = query.str[1]
    THEN crawl_logged(c, scraped, Crawler_log_skipped_page(query))
    ELSE crawl_loop(c, scraped)

\* query = scheduler.pop()
crawl_popped(c, scraped, query) ==
    crawl_scrape(Crawler(c.str, popped(scheduler_of(c))), query.val, Append(scraped, query.val))

\* while not scheduler.empty: ..., were the name scheduler bound to the
\* crawler's scheduler
crawl_loop(c, scraped) ==
    IF StackScheduler_len(scheduler_of(c)) = 0 THEN Crawled(Return(None), c, scraped)
    ELSE crawl_popped(c, scraped, StackScheduler_pop(scheduler_of(c)))

\* Crawler.crawl: its first statement reads the name scheduler, which is
\* neither a local of crawl nor bound in the module
Crawler_crawl(c) ==
    IF ~name_bound("scheduler", {"self", "query", "reason"})
    THEN Crawled(Raise("NameError"), c, <<>>)
    ELSE crawl_loop(c, <<>>)

SkipSets == { <<>>, <<"a">>, <<"b">>, <<"a", "b">> }

HeldAtStart == { <<>>, <<PyStr(<<"a">>)>>, <<PyStr(<<"a">>), PyStr(<<"b">>)>> }

CrawlerInit ==
    /\ self \in
        { Crawler_init(skips, s) :
            skips \in SkipSets,
            s \in {None} \cup { StackScheduler(held) : held \in HeldAtStart } }
    /\ call = [op |-> "__init__", args |-> <<>>]
    /\ outcome = NoCall
    /\ evaluated = <<>>
    /\ history = <<>>

\* self.scheduler.add(query)
CallCrawlerAdd ==
    /\ self.cls = "Crawler"
    /\ Len(stack(scheduler_of(self))) < MaxHeld
    /\ \E query \in Queries :
        /\ self' = Crawler(self.str, StackScheduler_add(scheduler_of(self), query))
        /\ call' = [op |-> "add", args |-> <<query>>]
    /\ outcome' = Return(None)
    /\ evaluated' = <<>>
    /\ UNCHANGED history

\* self.crawl()
CallCrawl ==
    /\ self.cls = "Crawler"
    /\ self' = Crawler_crawl(self).crawler
    /\ call' = [op |-> "crawl", args |-> <<>>]
    /\ outcome' = Crawler_crawl(self).outcome
    /\ evaluated' = Crawler_crawl(self).scraped
    /\ UNCHANGED history

CrawlerNext == CallCrawlerAdd \/ CallCrawl

CrawlerSpec == CrawlerInit /\ [][CrawlerNext]_vars

-----------------------------------------------------------------------------
(* crawl: every query held is scraped once *)

\* crawl has just been called
CrawlStep == self.cls = "Crawler" /\ call'.op = "crawl" /\ outcome' # NoCall

\* C30: crawl returns, having passed every query its scheduler held, from the
\* top of the stack down, to scrape exactly once, skipped or not, and leaves
\* the scheduler empty
C30_CrawlScrapesAll ==
    [][CrawlStep =>
        /\ outcome' = Return(None)
        /\ evaluated' = Reverse(stack(scheduler_of(self)))
        /\ stack(scheduler_of(self')) = <<>>]_vars

-----------------------------------------------------------------------------
(* Nodes as views of a document *)

\* C27: no operation changes the value a node wraps: whatever is called, on
\* the node at hand or on a node of another element of its tree, the node at
\* hand wraps afterwards what it wrapped before (only a caller going on with
\* a result changes the node at hand)
C27_ImmutableViews ==
    [][(self.cls = "ElementHusker" /\ call'.op # "chain") => value(self') = value(self)]_vars

====
